---- MODULE Spec2Model ----
(***************************************************************************)
(* Model of the MCP host: the chat session's bounded history and its       *)
(* model/tool iteration loop (mcp_host/chat_session.py) on top of the      *)
(* client manager's namespaced catalog and routing                         *)
(* (mcp_host/client_manager.py, mcp_host/mcpclient.py).                    *)
(*                                                                         *)
(* Python values are tagged records: PyNone, PyStr(s), PyList(l),          *)
(* PyDict(d).  A string is a sequence of one-character strings (names) or  *)
(* of literal chunks (fixed message texts); concatenation is \o.           *)
(***************************************************************************)
EXTENDS Integers, Sequences, FiniteSets, TLC

VARIABLES
    message_window,     \* ChatSession.message_window (W)
    messages,           \* ChatSession.messages, the history
    tool_mapping,       \* ChatSession.tool_mapping
    clients,            \* MCPClientManager.clients, server names in insertion order
    cached_tools,       \* MCPClientManager.cached_tools
    serverTools,        \* what each server answers to tools/list right now
    pc,                 \* position of the process_prompt coroutine
    current_iteration,  \* parameter of _process_prompt_with_limit
    tools,              \* local `tools` of the running frame
    tools_to_use,       \* local `tools_to_use` of the running frame
    tool_calls,         \* local `tool_calls` of the running frame
    call_index,         \* position of the for loop over tool_calls
    inflight,           \* the call_tool awaited by the loop, or PyNone
    result,             \* value returned by the last process_prompt
    llmCount,           \* create_message invocations of the current process_prompt
    catalog0,           \* catalog returned by the refresh at iteration 0
    events,             \* dispatches and tool messages since the last model reply
    llm_response,       \* the message most recently returned by create_message
    call_result,        \* how the last awaited call_tool ended: returned value or raised message
    epoch,              \* label of the current process_prompt in the ids of its tool_use blocks
    log,                \* every message add_message has stored, in order
    applied,            \* the operation called last on a component taken on its own, with its arguments
    returned,           \* what that operation returned or raised; Pending while it runs
    next_id,            \* MCPClient.next_id
    initialized,        \* MCPClient.initialized
    sent,               \* the messages an MCPClient has handed to its transport, in order
    transport,          \* MCPClient.config and MCPClient.transport: kind, and unset, down or up
    incoming,           \* what the server has written and the transport has not read yet
    traversed,          \* the list built by the most recent complete traversal of get_all_tools, or PyNone
    host                \* the frame of run_chat_session: its position, the manager's tasks, what it printed

vars == << message_window, messages, tool_mapping, clients, cached_tools,
           serverTools, pc, current_iteration, tools, tools_to_use,
           tool_calls, call_index, inflight, result, llmCount, catalog0,
           events, llm_response, call_result, epoch, log,
           applied, returned, next_id, initialized, sent, transport, incoming, traversed,
           host >>

(* the components below the session (manager, client, transport) and the   *)
(* pure functions, when exercised on their own                             *)
wire == << applied, returned, next_id, initialized, sent, transport, incoming, traversed >>

(* one MCPClient and its transport *)
link == << next_id, initialized, sent, transport, incoming >>

----------------------------------------------------------------------------
(* Bounds *)

MaxW == 1
MaxBlocks == 2
MaxAdds == 4
MaxId == 3
MaxQueue == 2
MaxSends == 2

(* Program constants *)

max_iterations_off == 5 + 1
max_iterations == 5
DEFAULT_MESSAGE_WINDOW == 10

----------------------------------------------------------------------------
(* Python values *)

PyNone == [ty |-> "none"]
PyStr(s) == [ty |-> "str", s |-> s]
PyList(l) == [ty |-> "list", l |-> l]
PyDict(d) == [ty |-> "dict", d |-> d]

IsNone(v) == v.ty = "none"
IsStr(v) == v.ty = "str"
IsList(v) == v.ty = "list"
IsDict(v) == v.ty = "dict"

(* "__" in s *)
HasSep(s) == \E i \in 1..(Len(s) - 1) : s[i] = "_" /\ s[i + 1] = "_"

FirstSep(s) == CHOOSE i \in 1..(Len(s) - 1) :
                  /\ s[i] = "_" /\ s[i + 1] = "_"
                  /\ \A j \in 1..(i - 1) : ~(s[j] = "_" /\ s[j + 1] = "_")

(* s.split("__", 1) when "__" in s *)
SplitFirst(s) == << SubSeq(s, 1, FirstSep(s) - 1),
                    SubSeq(s, FirstSep(s) + 2, Len(s)) >>

(* f"{name}__{tool}" *)
Namespaced(name, tool) == name \o << "_", "_" >> \o tool

----------------------------------------------------------------------------
(* Content blocks and messages *)

TextBlock(t) == [type |-> "text", text |-> t]
ToolUseBlock(i, n, inp) == [type |-> "tool_use", id |-> i, name |-> n, input |-> inp]
ToolResultBlock(i, c) == [type |-> "tool_result", tool_use_id |-> i, content |-> c]
Message(r, c) == [role |-> r, content |-> c]

RECURSIVE JoinTexts(_)
JoinTexts(blocks) ==
    IF blocks = << >> THEN << >>
    ELSE LET b == Head(blocks)
             rest == JoinTexts(Tail(blocks))
         IN IF b.type = "text" /\ b.text # << >>
            THEN (IF rest = << >> THEN b.text ELSE b.text \o << " " >> \o rest)
            ELSE rest

get_text_content(m) == JoinTexts(m.content)

RECURSIVE ToolUses(_)
ToolUses(blocks) ==
    IF blocks = << >> THEN << >>
    ELSE LET b == Head(blocks)
         IN IF b.type = "tool_use"
            THEN << [id |-> b.id, name |-> b.name, input |-> b.input] >> \o ToolUses(Tail(blocks))
            ELSE ToolUses(Tail(blocks))

get_tool_calls(m) == ToolUses(m.content)

has_content_any(m) == TRUE
has_content(m) == Len(m.content) > 0

(* self.messages[-w:] : Python slice with a negated bound; -0 is 0, so the *)
(* slice is the whole list when w = 0.                                     *)
LastSlice(seq, w) ==
    IF w = 0 THEN seq
    ELSE IF w >= Len(seq) THEN seq
    ELSE SubSeq(seq, Len(seq) - w + 1, Len(seq))

add_message(hist, m, w) ==
    IF has_content(m)
    THEN LET appended == Append(hist, m)
         IN IF Len(appended) > w THEN LastSlice(appended, w) ELSE appended
    ELSE hist

Stored(lg, m) == IF has_content(m) THEN Append(lg, m) ELSE lg

----------------------------------------------------------------------------
(* Tool servers and the client manager *)

SrvA == << "a" >>
SrvB == << "b" >>
SrvZ == << "z" >>
ToolP == << "p" >>
ToolQ == << "q" >>

Descriptor(n) == [name |-> n]

(* The tools/list answers the servers can give; a server may change its    *)
(* answer at any time.                                                     *)
ToolConfigs ==
    { [s \in {SrvA, SrvB} |-> << Descriptor(ToolP) >>],
      [s \in {SrvA, SrvB} |-> IF s = SrvA THEN << >> ELSE << Descriptor(ToolQ) >>] }

(* a tools/list that fails: transport error, timeout or invalid response *)
ListFailure == << [failure |-> "tools/list"] >>

(* a descriptor without a name *)
Nameless == [description |-> << "d" >>]

(* MCPClient.list_tools: result.tools, or [] on any failure *)
list_tools(name) == IF serverTools[name] = ListFailure THEN << >> ELSE serverTools[name]

Malformed(tool) == "name" \notin DOMAIN tool

(* the renaming loop over one client's tools: a descriptor that cannot be  *)
(* renamed raises, which ends the loop for this client and leaves what was *)
(* appended before it                                                      *)
RECURSIVE RenameAll(_, _)
RenameAll(name, tl) ==
    IF tl = << >> THEN << >>
    ELSE IF Malformed(Head(tl)) THEN << >>
    ELSE << [Head(tl) EXCEPT !.name = Namespaced(name, Head(tl).name)] >>
         \o RenameAll(name, Tail(tl))

RECURSIVE Traverse(_)
Traverse(cl) ==
    IF cl = << >> THEN << >>
    ELSE RenameAll(Head(cl), list_tools(Head(cl))) \o Traverse(Tail(cl))

UseCache_never(skip_refresh) == FALSE
UseCache(skip_refresh) == skip_refresh /\ ~IsNone(cached_tools)

(* MCPClientManager.get_all_tools: the returned list and the cache left    *)
get_all_tools(skip_refresh) ==
    IF UseCache(skip_refresh)
    THEN [tools |-> cached_tools.l, cache |-> cached_tools]
    ELSE [tools |-> Traverse(clients), cache |-> PyList(Traverse(clients))]

InClients(name) == \E i \in 1..Len(clients) : clients[i] = name

ErrorRecord(msg) == PyDict([error |-> PyStr(msg)])

(* What a client can answer to tools/call (MCPClient.call_tool): the       *)
(* server's result, or an {error: ...} record for an RPC error, a timeout  *)
(* or any other transport failure.                                         *)
TextItem(t) == PyDict([type |-> PyStr(<< "text" >>), text |-> PyStr(t)])

ClientOutcomes ==
    { PyDict([content |-> PyList(<< TextItem(<< "pong" >>) >>)]),
      ErrorRecord(<< "boom" >>) }

(* MCPClientManager.call_tool up to the delegation: the record it returns  *)
(* itself, or PyNone when it delegates to the client.                      *)
ManagerAnswer(namespaced_tool_name) ==
    IF ~HasSep(namespaced_tool_name)
    THEN ErrorRecord(<< "Invalid tool name format: " >> \o namespaced_tool_name)
    ELSE IF ~InClients(SplitFirst(namespaced_tool_name)[1])
    THEN ErrorRecord(<< "Server " >> \o SplitFirst(namespaced_tool_name)[1] \o << " not found" >>)
    ELSE PyNone

(* MCPClientManager.call_tool, the delegation: client.call_tool(tool_name,  *)
(* arguments) on the client named by the part before the first "__"        *)
Delegation_whole(namespaced_tool_name, arguments) ==
    [server |-> SplitFirst(namespaced_tool_name)[1],
     tool |-> namespaced_tool_name,
     arguments |-> arguments]
Delegation(namespaced_tool_name, arguments) ==
    [server |-> SplitFirst(namespaced_tool_name)[1],
     tool |-> SplitFirst(namespaced_tool_name)[2],
     arguments |-> arguments]

(* MCPClientManager.call_tool: the records it can return *)
CallResults(namespaced_tool_name) ==
    IF IsNone(ManagerAnswer(namespaced_tool_name)) THEN ClientOutcomes
    ELSE {ManagerAnswer(namespaced_tool_name)}

----------------------------------------------------------------------------
(* ChatSession helpers *)

RECURSIVE BuildMapping(_, _)
BuildMapping(tl, map) ==
    IF tl = << >> THEN map
    ELSE LET n == Head(tl).name
         IN IF HasSep(n)
            THEN BuildMapping(Tail(tl),
                     [k \in (DOMAIN map) \cup {SplitFirst(n)[2], n} |->
                         IF k = SplitFirst(n)[2] \/ k = n THEN n ELSE map[k]])
            ELSE BuildMapping(Tail(tl), map)

EmptyMapping == [k \in {} |-> << >>]

refresh_tool_mapping(tl) == BuildMapping(tl, EmptyMapping)

get_namespaced_tool_name_passthrough(tool_name) ==
    IF HasSep(tool_name) THEN PyStr(tool_name)
    ELSE IF tool_name \in DOMAIN tool_mapping THEN PyStr(tool_mapping[tool_name])
    ELSE PyStr(tool_name)

(* ChatSession._get_namespaced_tool_name; PyNone when unresolved *)
get_namespaced_tool_name(tool_name) ==
    IF HasSep(tool_name) THEN PyStr(tool_name)
    ELSE IF tool_name \in DOMAIN tool_mapping THEN PyStr(tool_mapping[tool_name])
    ELSE PyNone

Fetch == << "f", "e", "t", "c", "h" >>

EndsWith(s, suf) == Len(s) >= Len(suf) /\ SubSeq(s, Len(s) - Len(suf) + 1, Len(s)) = suf

PyInt(n) == [ty |-> "int", n |-> n]

FetchDefaults(tool_name, d) ==
    [k \in DOMAIN d |->
        IF EndsWith(tool_name, Fetch) /\ k = "max_length" /\ IsNone(d[k]) THEN PyInt(5000)
        ELSE IF EndsWith(tool_name, Fetch) /\ k = "start_index" /\ IsNone(d[k]) THEN PyInt(0)
        ELSE d[k]]

DropNulls_keep(d) == d
DropNulls(d) == [k \in {x \in DOMAIN d : ~IsNone(d[x])} |-> d[k]]

(* ChatSession._process_tool_arguments *)
process_tool_arguments(tool_name, arguments) ==
    IF ~IsDict(arguments) \/ DOMAIN arguments.d = {} THEN arguments
    ELSE PyDict(DropNulls(FetchDefaults(tool_name, arguments.d)))

EmptyDict == PyDict([k \in {} |-> PyNone])

(* json.loads on the texts a model can put in place of an argument         *)
(* mapping: the value of a JSON document, or a JSONDecodeError             *)
JsonNull == << "null" >>
JsonObject == << "{\"max_length\": null}" >>
JsonGarbage == << "{" >>

JsonDecodes(text) == text \in {JsonNull, JsonObject}

json_loads(text) ==
    IF text = JsonNull THEN PyNone
    ELSE PyDict([max_length |-> PyNone])

(* Step 5a of the loop: a string input is parsed as JSON, or wrapped when  *)
(* it does not parse; a null input becomes {}.                             *)
ParseInput(tool_input) ==
    IF IsStr(tool_input)
    THEN (IF JsonDecodes(tool_input.s) THEN json_loads(tool_input.s)
          ELSE PyDict([input |-> tool_input]))
    ELSE IF IsNone(tool_input) THEN EmptyDict
    ELSE tool_input

ValidBlocks_any(l) == TRUE
ValidBlocks(l) == \A i \in 1..Len(l) : IsDict(l[i]) /\ "type" \in DOMAIN l[i].d

IsInt(v) == v.ty = "int"

(* The keys of a mapping in their insertion order: the documents drawn     *)
(* below list their keys in the order of KeyOrder.                         *)
KeyOrder == << "content", "error", "text", "type", "data" >>

Keys(d) == SelectSeq(KeyOrder, LAMBDA k : k \in DOMAIN d)

Pad(level) == [i \in 1..level |-> "  "]

(* json.dumps(v, indent=2): the text from indentation level `level` on     *)
RECURSIVE Dumps(_, _)
RECURSIVE DumpItems(_, _)
RECURSIVE DumpMembers(_, _, _)
Dumps(v, level) ==
    IF IsNone(v) THEN << "null" >>
    ELSE IF IsInt(v) THEN << ToString(v.n) >>
    ELSE IF IsStr(v) THEN << "\"" >> \o v.s \o << "\"" >>
    ELSE IF IsList(v)
    THEN (IF v.l = << >> THEN << "[]" >>
          ELSE << "[", "\n" >> \o DumpItems(v.l, level + 1) \o << "\n" >> \o Pad(level) \o << "]" >>)
    ELSE (IF DOMAIN v.d = {} THEN << "{}" >>
          ELSE << "{", "\n" >> \o DumpMembers(v.d, Keys(v.d), level + 1)
               \o << "\n" >> \o Pad(level) \o << "}" >>)

DumpItems(l, level) ==
    Pad(level) \o Dumps(Head(l), level)
    \o (IF Tail(l) = << >> THEN << >> ELSE << ",", "\n" >> \o DumpItems(Tail(l), level))

DumpMembers(d, keys, level) ==
    Pad(level) \o << "\"", Head(keys), "\"", ": " >> \o Dumps(d[Head(keys)], level)
    \o (IF Tail(keys) = << >> THEN << >> ELSE << ",", "\n" >> \o DumpMembers(d, Tail(keys), level))

(* repr(v), as str() shows a value inside a container *)
RECURSIVE Repr(_)
RECURSIVE ReprItems(_)
RECURSIVE ReprMembers(_, _)
Repr(v) ==
    IF IsNone(v) THEN << "None" >>
    ELSE IF IsInt(v) THEN << ToString(v.n) >>
    ELSE IF IsStr(v) THEN << "'" >> \o v.s \o << "'" >>
    ELSE IF IsList(v)
    THEN << "[" >> \o (IF v.l = << >> THEN << >> ELSE ReprItems(v.l)) \o << "]" >>
    ELSE << "{" >> \o (IF DOMAIN v.d = {} THEN << >> ELSE ReprMembers(v.d, Keys(v.d))) \o << "}" >>

ReprItems(l) ==
    Repr(Head(l)) \o (IF Tail(l) = << >> THEN << >> ELSE << ", " >> \o ReprItems(Tail(l)))

ReprMembers(d, keys) ==
    << "'", Head(keys), "'", ": " >> \o Repr(d[Head(keys)])
    \o (IF Tail(keys) = << >> THEN << >> ELSE << ", " >> \o ReprMembers(d, Tail(keys)))

(* json.dumps(v, indent=2) *)
JsonText(v) == Dumps(v, 0)

(* str(v) *)
StrText(v) == IF IsStr(v) THEN v.s ELSE Repr(v)

(* ChatSession._transform_tool_result_content *)
transform_tool_result_content(r) ==
    IF IsDict(r) /\ "content" \in DOMAIN r.d /\ IsList(r.d.content)
    THEN (IF ValidBlocks(r.d.content.l) THEN r.d.content
          ELSE PyList(<< TextItem(JsonText(r)) >>))
    ELSE IF IsStr(r) THEN PyList(<< TextItem(r.s) >>)
    ELSE IF IsDict(r) /\ "error" \in DOMAIN r.d
    THEN PyList(<< TextItem(<< "Error: " >> \o StrText(r.d.error)) >>)
    ELSE IF IsDict(r) /\ "text" \in DOMAIN r.d
    THEN PyList(<< PyDict([type |-> PyStr(<< "text" >>), text |-> r.d.text]) >>)
    ELSE IF IsDict(r) THEN PyList(<< TextItem(JsonText(r)) >>)
    ELSE PyList(<< TextItem(StrText(r)) >>)

ToolMessage_user(tool_id, content) == Message("user", << ToolResultBlock(tool_id, content) >>)
ToolMessage(tool_id, content) == Message("tool", << ToolResultBlock(tool_id, content) >>)

NotFoundText(tool_name) ==
    << "Error: Tool '" >> \o tool_name \o << "' not found or not available in any connected server." >>

ExecErrorText(tool_name, msg) ==
    << "Error executing tool '" >> \o tool_name \o << "': " >> \o msg

MaxIterText ==
    << "I've reached the maximum number of tool interactions (", ToString(max_iterations), ")." >>

----------------------------------------------------------------------------
(* ChatSession._generate_final_response *)

(* the name of the tool_use block answering to tool_use_id, searched in     *)
(* hist[1..j] from the most recent assistant message backwards; `tn` is the *)
(* name found so far (the search stops at the first assistant message once  *)
(* a name is known).                                                        *)
RECURSIVE FindToolName(_, _, _, _)
FindToolName(hist, j, tool_use_id, tn) ==
    IF j = 0 THEN tn
    ELSE IF hist[j].role = "assistant"
    THEN LET uses == ToolUses(hist[j].content)
             hit == {k \in 1..Len(uses) : uses[k].id = tool_use_id}
         IN IF hit # {}
            THEN PyStr(uses[CHOOSE k \in hit : \A k2 \in hit : k <= k2].name)
            ELSE IF ~IsNone(tn) THEN tn
            ELSE FindToolName(hist, j - 1, tool_use_id, tn)
    ELSE FindToolName(hist, j - 1, tool_use_id, tn)

IsTextItem(it) == IsDict(it) /\ "type" \in DOMAIN it.d /\ it.d.type = PyStr(<< "text" >>)

(* the text of the first text item of a tool_result content, or PyNone *)
ToolData(content) ==
    IF IsList(content)
    THEN LET hit == {k \in 1..Len(content.l) : IsTextItem(content.l[k])}
         IN IF hit = {} THEN PyNone
            ELSE LET it == content.l[CHOOSE k \in hit : \A k2 \in hit : k <= k2]
                 IN IF "text" \in DOMAIN it.d THEN it.d.text ELSE PyNone
    ELSE IF IsStr(content) THEN content
    ELSE PyNone

Truthy(v) == IsStr(v) /\ v.s # << >>

(* the scan over reversed(self.messages): [data, name] *)
RECURSIVE ScanToolData(_, _, _)
ScanToolData(hist, i, tn) ==
    IF i = 0 THEN [data |-> PyNone, name |-> tn]
    ELSE IF hist[i].role = "tool" /\ hist[i].content[1].type = "tool_result"
    THEN LET b == hist[i].content[1]
             tn2 == FindToolName(hist, i - 1, b.tool_use_id, tn)
             data == ToolData(b.content)
         IN IF Truthy(data) THEN [data |-> data, name |-> tn2]
            ELSE ScanToolData(hist, i - 1, tn2)
    ELSE ScanToolData(hist, i - 1, tn)

Truncate(s, n, suffix) == IF Len(s) > n THEN SubSeq(s, 1, n) \o suffix ELSE s

(* first non-empty user text among self.messages[-3:] *)
RecentPrompt(hist) ==
    LET last3 == IF Len(hist) > 3 THEN SubSeq(hist, Len(hist) - 2, Len(hist)) ELSE hist
        hit == {k \in 1..Len(last3) : last3[k].role = "user" /\ get_text_content(last3[k]) # << >>}
    IN IF hit = {} THEN << >>
       ELSE get_text_content(last3[CHOOSE k \in hit : \A k2 \in hit : k <= k2])

generate_final_response(hist) ==
    LET scan == ScanToolData(hist, Len(hist), PyNone)
    IN IF Truthy(scan.data)
       THEN << "I retrieved the following information" >>
            \o (IF Truthy(scan.name) THEN << " using the " >> \o scan.name.s ELSE << >>)
            \o << ":\n\n" >> \o Truncate(scan.data.s, 500, << "..." >>)
       ELSE IF RecentPrompt(hist) # << >>
       THEN << "I've processed your request about \"" >>
            \o Truncate(RecentPrompt(hist), 50, << "..." >>)
            \o << "\" but I'm having trouble providing a complete response. Could you please clarify or rephrase your question?" >>
       ELSE << "I'm having trouble generating a response. Could you please provide more details or rephrase your question?" >>

(* what the frame returns for a reply that ends the turn *)
FinalText(reply, hist) ==
    IF get_text_content(reply) = << >> THEN generate_final_response(hist)
    ELSE get_text_content(reply)

----------------------------------------------------------------------------
(* The model provider: create_message returns an assistant message with an *)
(* optional text block followed by tool_use blocks carrying fresh ids.     *)

(* the (name, input) pairs the model asks for: an unqualified name, which  *)
(* the tool map resolves or not depending on what the servers list, and a  *)
(* namespaced name whose server is no client                               *)
ModelCalls ==
    { << ToolP, PyDict([url |-> PyStr(<< "x" >>), cookie |-> PyNone]) >>,
      << Namespaced(SrvZ, ToolP), PyNone >> }
ModelTexts == { << >>, << "ok" >> }
Prompts == { << >>, << "hi" >> }

BlockIds(blocks) ==
    {blocks[i].id : i \in {k \in 1..Len(blocks) : blocks[k].type = "tool_use"}}
    \cup {blocks[i].tool_use_id : i \in {k \in 1..Len(blocks) : blocks[k].type = "tool_result"}}

UsedIds(hist) == UNION {BlockIds(hist[i].content) : i \in 1..Len(hist)}

(* uuid4 gives every tool_use block an id no other block has.  An id is    *)
(* the triple (label of the process_prompt, number of the create_message   *)
(* call, position of the block); the label is one that no id still in the  *)
(* history carries.                                                        *)
RECURSIVE LeastAbsent(_, _)
LeastAbsent(used, from) == IF from \in used THEN LeastAbsent(used, from + 1) ELSE from

FreshEpoch(hist) == LeastAbsent({id[1] : id \in UsedIds(hist)}, 0)

FreshId(call, k) == << epoch, call, k >>

UseSpecs == UNION {[1..n -> ModelCalls] : n \in 0..MaxBlocks}

ReplyOf(text, spec) ==
    Message("assistant",
        (IF text = << >> THEN << >> ELSE << TextBlock(text) >>)
        \o [i \in 1..Len(spec) |->
               ToolUseBlock(FreshId(llmCount + 1, i), spec[i][1], spec[i][2])])

Replies == {ReplyOf(t, sp) : t \in ModelTexts, sp \in UseSpecs}

CallEvent(c) == [kind |-> "call", id |-> c.id, name |-> c.name, arguments |-> c.arguments]
MsgEvent(id) == [kind |-> "msg", id |-> id, name |-> << >>, arguments |-> PyNone]

NoReply == Message("assistant", << >>)

NoCall == [kind |-> "none"]

NoOp == [op |-> "none"]
Pending == [kind |-> "pending"]

(* a client of a well-formed stdio server before initialize *)
NoTransport == [config |-> "ok", kind |-> "stdio", state |-> "unset"]

(* run_chat_session not entered *)
NoHost == [pc |-> "none"]

(* MCPClient.__init__, and nothing called on a component on its own *)
WireInit ==
    /\ host = NoHost
    /\ applied = NoOp
    /\ returned = NoCall
    /\ next_id = 1
    /\ initialized = FALSE
    /\ sent = << >>
    /\ transport = NoTransport
    /\ incoming = << >>
    /\ traversed = PyNone
Returned(r) == [kind |-> "return", value |-> r]
Raised(msg) == [kind |-> "raise", msg |-> msg]

----------------------------------------------------------------------------
(* ChatSession._process_prompt_with_limit *)

OfferedTools(iteration, tl) ==
    IF iteration < max_iterations - 1 THEN PyList(tl) ELSE PyNone

(* the frame returns `text` to the caller of process_prompt *)
Return(text) ==
    /\ pc' = "idle"
    /\ result' = PyStr(text)
    /\ tools' = << >>
    /\ tools_to_use' = PyNone
    /\ tool_calls' = << >>
    /\ call_index' = 1
    /\ inflight' = PyNone
    /\ current_iteration' = 0

(* process_prompt(prompt): the frame of iteration 0 up to its first        *)
(* create_message                                                          *)
ProcessPrompt(prompt) ==
    /\ pc \in {"idle", "raised"}
    /\ messages' = IF prompt # << >>
                   THEN add_message(messages, Message("user", << TextBlock(prompt) >>), message_window)
                   ELSE messages
    /\ LET got == get_all_tools(FALSE)
       IN /\ cached_tools' = got.cache
          /\ tool_mapping' = refresh_tool_mapping(got.tools)
          /\ tools' = got.tools
          /\ catalog0' = got.tools
          /\ tools_to_use' = OfferedTools(0, got.tools)
    /\ current_iteration' = 0
    /\ pc' = "llm1"
    /\ llmCount' = 0
    /\ result' = PyNone
    /\ events' = << >>
    /\ llm_response' = NoReply
    /\ epoch' = FreshEpoch(messages)
    /\ call_result' = NoCall
    /\ tool_calls' = << >>
    /\ call_index' = 1
    /\ inflight' = PyNone
    /\ UNCHANGED << host, wire, message_window, clients, serverTools, log >>

(* the first create_message of a frame returns `reply` *)
LLMCall1(reply) ==
    /\ pc = "llm1"
    /\ llmCount' = llmCount + 1
    /\ messages' = add_message(messages, reply, message_window)
    /\ IF get_tool_calls(reply) = << >>
       THEN /\ Return(FinalText(reply, messages'))
            /\ llm_response' = NoReply
            /\ events' = << >>
       ELSE /\ tool_calls' = get_tool_calls(reply)
            /\ call_index' = 1
            /\ pc' = "tools"
            /\ llm_response' = reply
            /\ events' = << >>
            /\ UNCHANGED << result, tools, tools_to_use, inflight, current_iteration >>
    /\ call_result' = NoCall
    /\ UNCHANGED << host, wire, message_window, tool_mapping, clients, cached_tools, serverTools,
                    catalog0, epoch, log >>

AfterCall_stay == "tools"
AfterCall == IF call_index + 1 > Len(tool_calls) THEN "llm2" ELSE "tools"

(* the tool call the for loop is at *)
CurrentCall_reversed == tool_calls[Len(tool_calls) + 1 - call_index]
CurrentCall == tool_calls[call_index]

(* one round of the for loop up to the await of mcp_manager.call_tool, or  *)
(* the whole round when the name does not resolve                          *)
ToolStart ==
    /\ pc = "tools"
    /\ call_index <= Len(tool_calls)
    /\ LET c == CurrentCall
           tool_input == ParseInput(c.input)
           namespaced_tool_name == get_namespaced_tool_name(c.name)
       IN IF IsNone(namespaced_tool_name)
          THEN /\ messages' = add_message(messages,
                                  ToolMessage(c.id, PyList(<< TextItem(NotFoundText(c.name)) >>)),
                                  message_window)
               /\ events' = Append(events, MsgEvent(c.id))
               /\ call_index' = call_index + 1
               /\ pc' = AfterCall
               /\ UNCHANGED inflight
          ELSE /\ inflight' = [id |-> c.id, tool_name |-> c.name,
                               name |-> namespaced_tool_name.s,
                               arguments |-> process_tool_arguments(c.name, tool_input)]
               /\ events' = Append(events, CallEvent(inflight'))
               /\ pc' = "await"
               /\ UNCHANGED << messages, call_index >>
    /\ UNCHANGED << host, wire, message_window, tool_mapping, clients, cached_tools, serverTools,
                    current_iteration, tools, tools_to_use, tool_calls, result,
                    llmCount, catalog0, llm_response, call_result, epoch, log >>

Succeeded(r) == IsDict(r) /\ "error" \notin DOMAIN r.d

(* mcp_manager.call_tool returns `r`; the rest of the round *)
ToolReturn(r) ==
    /\ pc = "await"
    /\ messages' = add_message(messages,
                       ToolMessage(inflight.id, transform_tool_result_content(r)),
                       message_window)
    /\ events' = Append(events, MsgEvent(inflight.id))
    /\ call_result' = Returned(r)
    /\ inflight' = PyNone
    /\ call_index' = call_index + 1
    /\ pc' = AfterCall
    /\ UNCHANGED << host, wire, message_window, tool_mapping, clients, cached_tools, serverTools,
                    current_iteration, tools, tools_to_use, tool_calls, result,
                    llmCount, catalog0, llm_response, epoch, log >>

(* `except Exception` catches whatever call_tool or the transformation     *)
(* raises                                                                  *)
Caught_none(msg) == FALSE
Caught(msg) == TRUE

(* mcp_manager.call_tool raises an exception with message `msg`: the       *)
(* except branch, or the exception leaves process_prompt                   *)
ToolRaise(msg) ==
    /\ pc = "await"
    /\ call_result' = Raised(msg)
    /\ inflight' = PyNone
    /\ IF Caught(msg)
       THEN /\ messages' = add_message(messages,
                               ToolMessage(inflight.id,
                                   PyList(<< TextItem(ExecErrorText(inflight.tool_name, msg)) >>)),
                               message_window)
            /\ events' = Append(events, MsgEvent(inflight.id))
            /\ call_index' = call_index + 1
            /\ pc' = AfterCall
       ELSE /\ pc' = "raised"
            /\ UNCHANGED << messages, events, call_index >>
    /\ UNCHANGED << host, wire, message_window, tool_mapping, clients, cached_tools, serverTools,
                    current_iteration, tools, tools_to_use, tool_calls, result,
                    llmCount, catalog0, llm_response, epoch, log >>

Recurse(reply) == get_tool_calls(reply) # << >> /\ current_iteration < max_iterations - 1

(* the follow-up create_message returns `reply`; on a further tool request *)
(* the recursive frame runs up to its first create_message                 *)
LLMCall2(reply) ==
    /\ pc = "llm2"
    /\ llmCount' = llmCount + 1
    /\ messages' = add_message(messages, reply, message_window)
    /\ events' = << >>
    /\ IF Recurse(reply)
       THEN IF current_iteration + 1 >= max_iterations
            THEN /\ Return(MaxIterText)
                 /\ llm_response' = NoReply
                 /\ UNCHANGED cached_tools
            ELSE LET got == get_all_tools(TRUE)
                 IN /\ current_iteration' = current_iteration + 1
                    /\ tools' = got.tools
                    /\ cached_tools' = got.cache
                    /\ tools_to_use' = OfferedTools(current_iteration + 1, got.tools)
                    /\ pc' = "llm1"
                    /\ llm_response' = reply
                    /\ tool_calls' = << >>
                    /\ call_index' = 1
                    /\ UNCHANGED << result, inflight >>
       ELSE /\ Return(FinalText(reply, messages'))
            /\ llm_response' = NoReply
            /\ UNCHANGED cached_tools
    /\ call_result' = NoCall
    /\ UNCHANGED << host, wire, message_window, tool_mapping, clients, serverTools,
                    catalog0, epoch, log >>

(* the `tools` command of the chat loop: mcp_manager.get_all_tools() *)
ListToolsCommand ==
    /\ pc \in {"idle", "raised"}
    /\ cached_tools' = get_all_tools(FALSE).cache
    /\ UNCHANGED << host, wire, message_window, messages, tool_mapping, clients, serverTools, pc,
                    current_iteration, tools, tools_to_use, tool_calls, call_index,
                    inflight, result, llmCount, catalog0, events, llm_response,
                    call_result, epoch, log >>

(* a server starts answering tools/list differently; the answers are read  *)
(* only by get_all_tools, which runs from the idle loop and at the entry   *)
(* of a recursive frame, so the change is taken just before those points   *)
ServerToolsChange(cfg) ==
    /\ pc \in {"idle", "raised", "llm2"}
    /\ cfg # serverTools
    /\ serverTools' = cfg
    /\ UNCHANGED << host, wire, message_window, messages, tool_mapping, clients, cached_tools, pc,
                    current_iteration, tools, tools_to_use, tool_calls, call_index,
                    inflight, result, llmCount, catalog0, events, llm_response,
                    call_result, epoch, log >>

RaiseTexts == { << "down" >> }

Init ==
    /\ message_window \in 1..MaxW
    /\ messages = << >>
    /\ tool_mapping = EmptyMapping
    /\ clients = << SrvA, SrvB >>
    /\ cached_tools = PyNone
    /\ serverTools \in ToolConfigs
    /\ pc = "idle"
    /\ current_iteration = 0
    /\ tools = << >>
    /\ tools_to_use = PyNone
    /\ tool_calls = << >>
    /\ call_index = 1
    /\ inflight = PyNone
    /\ result = PyNone
    /\ llmCount = 0
    /\ catalog0 = << >>
    /\ events = << >>
    /\ llm_response = NoReply
    /\ call_result = NoCall
    /\ epoch = 0
    /\ log = << >>
    /\ WireInit

Next ==
    \/ \E prompt \in Prompts : ProcessPrompt(prompt)
    \/ (pc = "llm1" /\ \E reply \in Replies : LLMCall1(reply))
    \/ ToolStart
    \/ (pc = "await" /\ \E r \in CallResults(inflight.name) : ToolReturn(r))
    \/ \E msg \in RaiseTexts : ToolRaise(msg)
    \/ (pc = "llm2" /\ \E reply \in Replies : LLMCall2(reply))
    \/ ListToolsCommand
    \/ \E cfg \in ToolConfigs : ServerToolsChange(cfg)

Spec == Init /\ [][Next]_vars

----------------------------------------------------------------------------
(* add_message on its own: a session of any small window W receiving any   *)
(* sequence of messages                                                    *)

AddSet ==
    { Message("user", << TextBlock(<< "a" >>) >>),
      Message("user", << TextBlock(<< "b" >>) >>),
      Message("assistant", << TextBlock(<< "c" >>) >>),
      Message("assistant", << >>) }

InitAdd ==
    /\ message_window \in 0..(MaxW + 1)
    /\ messages = << >>
    /\ tool_mapping = EmptyMapping
    /\ clients = << SrvA, SrvB >>
    /\ cached_tools = PyNone
    /\ serverTools \in {cfg \in ToolConfigs : cfg[SrvA] = << >>}
    /\ pc = "idle"
    /\ current_iteration = 0
    /\ tools = << >>
    /\ tools_to_use = PyNone
    /\ tool_calls = << >>
    /\ call_index = 1
    /\ inflight = PyNone
    /\ result = PyNone
    /\ llmCount = 0
    /\ catalog0 = << >>
    /\ events = << >>
    /\ llm_response = NoReply
    /\ call_result = NoCall
    /\ epoch = 0
    /\ log = << >>
    /\ WireInit

AddMessage(m) ==
    /\ Len(log) < MaxAdds
    /\ messages' = add_message(messages, m, message_window)
    /\ log' = Stored(log, m)
    /\ UNCHANGED << host, wire, message_window, tool_mapping, clients, cached_tools, serverTools, pc,
                    current_iteration, tools, tools_to_use, tool_calls, call_index,
                    inflight, result, llmCount, catalog0, events, llm_response, call_result, epoch >>

NextAdd == \E m \in AddSet : AddMessage(m)

SpecAdd == InitAdd /\ [][NextAdd]_vars

(* the last n elements of a sequence *)
Suffix(seq, n) == IF n >= Len(seq) THEN seq ELSE SubSeq(seq, Len(seq) - n + 1, Len(seq))

(* C1: after every add_message the history has at most W messages, and it  *)
(* is exactly the W most recent stored messages in their original order.   *)
C1_WindowBound ==
    /\ Len(messages) <= message_window
    /\ messages = Suffix(log, message_window)

----------------------------------------------------------------------------
(* The iteration cap *)

CapReplies ==
    {r \in Replies :
        /\ get_tool_calls(r) # << >>
        /\ \A i \in 1..Len(get_tool_calls(r)) : get_tool_calls(r)[i].name = ToolP}

InitCap == Init /\ serverTools[SrvA] = << Descriptor(ToolP) >>

NextCap ==
    \/ \E prompt \in Prompts : ProcessPrompt(prompt)
    \/ (pc = "llm1" /\ \E reply \in CapReplies : LLMCall1(reply))
    \/ ToolStart
    \/ (pc = "await" /\ \E r \in {x \in CallResults(inflight.name) : Succeeded(x)} : ToolReturn(r))
    \/ (pc = "llm2" /\ \E reply \in CapReplies : LLMCall2(reply))

SpecCap == InitCap /\ [][NextCap]_vars

(* C3: when the model emits a tool_use in every reply and every tool call  *)
(* succeeds, process_prompt returns exactly the fixed sentence and the     *)
(* history holds at most W messages.                                       *)
C3_CapSentinel ==
    (pc = "idle" /\ llmCount > 0) =>
        (result = PyStr(MaxIterText) /\ Len(messages) <= message_window)

(* The coroutine runs on: every awaited model invocation and tool call     *)
(* returns.                                                                *)
PromptStep ==
    \/ (pc = "llm1" /\ \E reply \in Replies : LLMCall1(reply))
    \/ ToolStart
    \/ (pc = "await" /\ \E r \in CallResults(inflight.name) : ToolReturn(r))
    \/ \E msg \in RaiseTexts : ToolRaise(msg)
    \/ (pc = "llm2" /\ \E reply \in Replies : LLMCall2(reply))

(* the first process_prompt of a session, up to its return                 *)
Fresh == messages = << >> /\ llmCount = 0

NextPrompt ==
    \/ \E prompt \in Prompts : (Fresh /\ ProcessPrompt(prompt))
    \/ PromptStep

FairSpec == Init /\ [][NextPrompt]_vars /\ WF_vars(PromptStep)

(* C4: a process_prompt that has started returns a reply, also when the    *)
(* model asks for a tool in every reply.                                   *)
C4_Terminates == (pc \notin {"idle", "raised"}) ~> (pc = "idle")

C4_Witness == pc = "idle" /\ llmCount = 10 /\ IsStr(result)

----------------------------------------------------------------------------
(* The tool loop *)

(* a step in which create_message is invoked, with the history `messages`, *)
(* the tools `tools_to_use`, in iteration `current_iteration`              *)
InvokeStep == llmCount' = llmCount + 1

IsAnswer(m, id) ==
    /\ m.role = "tool"
    /\ Len(m.content) = 1
    /\ m.content[1].type = "tool_result"
    /\ m.content[1].tool_use_id = id

(* the step appends exactly one message, a tool message answering `id` *)
AnswerAppended(id) ==
    /\ Len(messages') >= 1
    /\ IsAnswer(messages'[Len(messages')], id)
    /\ messages' = add_message(messages, messages'[Len(messages')], message_window)

MsgCount(id) == Cardinality({i \in 1..Len(events) : events[i] = MsgEvent(id)})
CallCount(id) == Cardinality({i \in 1..Len(events) : events[i].kind = "call" /\ events[i].id = id})

(* C5: every round of the tool loop, whatever its outcome, appends exactly *)
(* one tool message with a single tool_result block carrying the id of the *)
(* round's tool_use block, no other step of the loop touches the history,  *)
(* and when the model is invoked after the loop each processed block has   *)
(* exactly one such message.                                               *)
C5_OneToolMessage ==
    [][ /\ (pc \in {"tools", "await"} /\ pc' # "raised") =>
              IF call_index' = call_index + 1
              THEN AnswerAppended(CurrentCall.id)
              ELSE messages' = messages
        /\ (InvokeStep /\ pc = "llm2") =>
              \A k \in 1..Len(tool_calls) : MsgCount(tool_calls[k].id) = 1
      ]_vars

C5_Witness ==
    /\ pc = "llm2" /\ Len(tool_calls) = 2 /\ Len(events) = 3
    /\ call_result.kind = "raise"

(* C6: at every model invocation, each tool_use block of the reply         *)
(* obtained last (first reply or follow-up) has been answered by a tool    *)
(* message.                                                                *)
C6_FollowUpDispatched ==
    [][ InvokeStep =>
          \A k \in 1..Len(get_tool_calls(llm_response)) :
              MsgCount(get_tool_calls(llm_response)[k].id) >= 1
      ]_vars

MsgsBefore(i) == Cardinality({j \in 1..(i - 1) : events[j].kind = "msg"})

ToolPositions(ids) ==
    {i \in 1..Len(messages) :
        /\ messages[i].role = "tool"
        /\ \E k \in 1..Len(ids) : messages[i].content[1].tool_use_id = ids[k]}

BlockOf(ids, i) == CHOOSE k \in 1..Len(ids) : messages[i].content[1].tool_use_id = ids[k]

(* C7: within one reply the calls are sent one at a time in block order:   *)
(* every dispatch and every tool message concerns the first block not yet  *)
(* answered, a dispatch is followed by its tool message before anything    *)
(* else, and the tool messages stand in the history in block order.        *)
C7_InOrder ==
    LET ids == [k \in 1..Len(tool_calls) |-> tool_calls[k].id]
    IN /\ \A i \in 1..Len(events) :
             /\ MsgsBefore(i) + 1 <= Len(ids)
             /\ events[i].id = ids[MsgsBefore(i) + 1]
             /\ (events[i].kind = "call" /\ i < Len(events)) => events[i + 1].kind = "msg"
       /\ (pc = "await") =>
             (Len(events) >= 1 /\ events[Len(events)] = CallEvent(inflight))
       /\ (pc = "tools" /\ Len(events) >= 1) => events[Len(events)].kind = "msg"
       /\ \A i, j \in ToolPositions(ids) : i < j => BlockOf(ids, i) < BlockOf(ids, j)

C7_Witness == pc = "llm2" /\ Len(events) = 4 /\ Len(tool_calls) = 2

(* C8: every model invocation of the last permitted iteration is given no  *)
(* tools, and every invocation of an earlier iteration is given the        *)
(* catalog obtained at iteration 0.                                        *)
C8_OfferedTools ==
    [][ InvokeStep =>
          tools_to_use = (IF current_iteration = 4 THEN PyNone ELSE PyList(catalog0))
      ]_vars

C8_Witness ==
    /\ pc = "llm2" /\ current_iteration = 4
    /\ Traverse(clients) # catalog0

(* the name has no "__" and is not in the tool map *)
Unresolved(c) == ~HasSep(c.name) /\ c.name \notin DOMAIN tool_mapping

NotFoundMessage(c) == ToolMessage(c.id, PyList(<< TextItem(NotFoundText(c.name)) >>))

InHistory(m) == \E i \in 1..Len(messages) : messages[i] = m

(* C9 as stated: for a tool_use whose name does not resolve no call is     *)
(* made, the not-found tool message is appended, the other blocks are      *)
(* processed, and the next model invocation has that message in its        *)
(* history.                                                                *)
C9_SeenByModel ==
    [][ (InvokeStep /\ pc = "llm2") =>
          \A k \in 1..Len(tool_calls) :
              Unresolved(tool_calls[k]) =>
                  /\ CallCount(tool_calls[k].id) = 0
                  /\ \A k2 \in 1..Len(tool_calls) : MsgCount(tool_calls[k2].id) = 1
                  /\ InHistory(NotFoundMessage(tool_calls[k]))
      ]_vars

(* C9: for a tool_use whose name does not resolve no call is made, the     *)
(* not-found tool message with its id is appended, the other blocks of the *)
(* reply are processed, and the next model invocation has that message in  *)
(* its history when fewer than W messages were appended after it.          *)
C9_NotFound ==
    [][ /\ (pc = "tools" /\ Unresolved(CurrentCall)) =>
              /\ messages' = add_message(messages, NotFoundMessage(CurrentCall), message_window)
              /\ pc' \in {"tools", "llm2"}
              /\ inflight' = inflight
        /\ (InvokeStep /\ pc = "llm2") =>
              \A k \in 1..Len(tool_calls) :
                  Unresolved(tool_calls[k]) =>
                      /\ CallCount(tool_calls[k].id) = 0
                      /\ \A k2 \in 1..Len(tool_calls) : MsgCount(tool_calls[k2].id) = 1
                      /\ (Len(tool_calls) - k < message_window) =>
                             InHistory(NotFoundMessage(tool_calls[k]))
      ]_vars

C9_Witness ==
    /\ pc = "llm2" /\ Len(tool_calls) = 2
    /\ Unresolved(tool_calls[2])
    /\ InHistory(NotFoundMessage(tool_calls[2]))
    /\ CallCount(tool_calls[1].id) = 1

Failed(o) == o.kind = "raise" \/ (o.kind = "return" /\ ~Succeeded(o.value))

ErrorTexts == { "Error: ", "Error executing tool '" }

IsErrorAnswer(m, id) ==
    /\ IsAnswer(m, id)
    /\ IsList(m.content[1].content)
    /\ Len(m.content[1].content.l) = 1
    /\ IsTextItem(m.content[1].content.l[1])
    /\ Head(m.content[1].content.l[1].d.text.s) \in ErrorTexts

(* C10: a tool call that fails (error record from the server or the        *)
(* manager, or an exception) does not make process_prompt raise: an error  *)
(* tool_result for that call is appended, the loop goes on to the next     *)
(* block, and after the last block the model is invoked again.             *)
C10_KeepsGoing ==
    /\ [][ (pc = "await" /\ pc' # "await" /\ Failed(call_result')) =>
             /\ AnswerAppended(inflight.id)
             /\ IsErrorAnswer(messages'[Len(messages')], inflight.id)
             /\ call_index' = call_index + 1
             /\ pc' = (IF call_index' <= Len(tool_calls) THEN "tools" ELSE "llm2")
         ]_vars
    /\ [](pc # "raised")

C10_Witness ==
    /\ pc = "tools" /\ call_index = 2
    /\ call_result.kind = "raise"

----------------------------------------------------------------------------
(* Argument cleanup: one process_prompt in which the model asks for one    *)
(* tool with any small argument mapping                                    *)

WebFetch == << "w", "e", "b", "_" >> \o Fetch

ArgsConfig ==
    [s \in {SrvA, SrvB} |->
        IF s = SrvA THEN << Descriptor(WebFetch), Descriptor(Fetch) >>
        ELSE << Descriptor(ToolP) >>]

ArgKeys == { "url", "max_length", "start_index", "cookie" }
ArgValues == { PyNone, PyStr(<< "x" >>) }

ArgInputs ==
    {PyDict(d) : d \in UNION {[K -> ArgValues] : K \in SUBSET ArgKeys}}
    \cup { PyNone, PyStr(JsonNull), PyStr(JsonObject), PyStr(JsonGarbage) }

ArgNames == { WebFetch, Namespaced(SrvA, Fetch), ToolP }

ArgReplies == {ReplyOf(<< >>, << << n, inp >> >>) : n \in ArgNames, inp \in ArgInputs}

TextReplies == {r \in Replies : get_tool_calls(r) = << >>}

InitArgs ==
    /\ message_window \in 1..MaxW
    /\ messages = << >>
    /\ tool_mapping = EmptyMapping
    /\ clients = << SrvA, SrvB >>
    /\ cached_tools = PyNone
    /\ serverTools = ArgsConfig
    /\ pc = "idle"
    /\ current_iteration = 0
    /\ tools = << >>
    /\ tools_to_use = PyNone
    /\ tool_calls = << >>
    /\ call_index = 1
    /\ inflight = PyNone
    /\ result = PyNone
    /\ llmCount = 0
    /\ catalog0 = << >>
    /\ events = << >>
    /\ llm_response = NoReply
    /\ call_result = NoCall
    /\ epoch = 0
    /\ log = << >>
    /\ WireInit

NextArgs ==
    \/ \E prompt \in Prompts : (Fresh /\ ProcessPrompt(prompt))
    \/ (pc = "llm1" /\ \E reply \in ArgReplies : LLMCall1(reply))
    \/ ToolStart
    \/ (pc = "await" /\ \E r \in CallResults(inflight.name) : ToolReturn(r))
    \/ (pc = "llm2" /\ \E reply \in TextReplies : LLMCall2(reply))

SpecArgs == InitArgs /\ [][NextArgs]_vars

(* the arguments the claim expects for a tool_use input that is a mapping  *)
(* or null, given the resolved name of the tool                            *)
ExpectedArguments(resolved, input) ==
    IF IsNone(input) THEN EmptyDict
    ELSE LET defaulted == IF EndsWith(resolved, Fetch) THEN { "max_length", "start_index" } ELSE {}
             kept == {k \in DOMAIN input.d : ~IsNone(input.d[k]) \/ k \in defaulted}
         IN PyDict([k \in kept |->
                IF ~IsNone(input.d[k]) THEN input.d[k]
                ELSE IF k = "max_length" THEN PyInt(5000) ELSE PyInt(0)])

(* C11: the arguments passed to call_tool are the tool_use input without   *)
(* its null-valued keys, except that for a resolved name ending in "fetch" *)
(* a null max_length is sent as 5000 and a null start_index as 0; a null   *)
(* input is sent as {}.                                                    *)
C11_Arguments ==
    [][ (pc = "tools" /\ pc' = "await"
            /\ (IsDict(CurrentCall.input) \/ IsNone(CurrentCall.input))) =>
          inflight'.arguments = ExpectedArguments(inflight'.name, CurrentCall.input)
      ]_vars

C11_Witness ==
    /\ pc = "await"
    /\ inflight.name = Namespaced(SrvA, WebFetch)
    /\ CurrentCall.input = PyDict([url |-> PyStr(<< "x" >>), max_length |-> PyNone,
                                   start_index |-> PyNone, cookie |-> PyNone])
    /\ inflight.arguments = PyDict([url |-> PyStr(<< "x" >>), max_length |-> PyInt(5000),
                                    start_index |-> PyInt(0)])

----------------------------------------------------------------------------
(* Components on their own: the session is at rest                         *)

chat == << message_window, messages, tool_mapping, pc, current_iteration, tools,
           tools_to_use, tool_calls, call_index, inflight, result, llmCount,
           catalog0, events, llm_response, call_result, epoch, log >>

manager == << clients, cached_tools, serverTools >>

(* ChatSession.__init__ with the default window *)
ChatAtRest ==
    /\ message_window = DEFAULT_MESSAGE_WINDOW
    /\ messages = << >>
    /\ tool_mapping = EmptyMapping
    /\ pc = "idle"
    /\ current_iteration = 0
    /\ tools = << >>
    /\ tools_to_use = PyNone
    /\ tool_calls = << >>
    /\ call_index = 1
    /\ inflight = PyNone
    /\ result = PyNone
    /\ llmCount = 0
    /\ catalog0 = << >>
    /\ events = << >>
    /\ llm_response = NoReply
    /\ call_result = NoCall
    /\ epoch = 0
    /\ log = << >>

(* MCPClientManager after initialize_clients with two servers *)
ManagerAtRest ==
    /\ clients = << SrvA, SrvB >>
    /\ cached_tools = PyNone
    /\ serverTools = ArgsConfig

----------------------------------------------------------------------------
(* Result normalization: _transform_tool_result_content applied to any     *)
(* small tool result, and once more to its own output                      *)

ContentValues ==
    { PyList(<< >>),
      PyList(<< TextItem(<< "a" >>) >>),
      PyList(<< PyInt(1) >>),
      PyList(<< PyDict([text |-> PyStr(<< "a" >>)]) >>),
      PyList(<< TextItem(<< "a" >>), PyInt(1) >>),
      PyStr(<< "c" >>) }

FieldValues ==
    [content |-> ContentValues,
     error |-> { PyStr(<< "e" >>), PyInt(2) },
     text |-> { PyStr(<< "t" >>), PyInt(3) },
     data |-> { PyInt(1) }]

ResultKeys == { "content", "error", "text", "data" }

ResultMappings ==
    UNION {{PyDict(d) : d \in {f \in [K -> UNION {FieldValues[k] : k \in K}] :
                                  \A k \in K : f[k] \in FieldValues[k]}}
           : K \in SUBSET ResultKeys}

ResultValues ==
    ResultMappings
    \cup { PyNone, PyInt(1), PyStr(<< >>), PyStr(<< "a" >>),
           PyList(<< >>), PyList(<< TextItem(<< "a" >>) >>), PyList(<< PyInt(1) >>) }

InitNormalize == ChatAtRest /\ ManagerAtRest /\ WireInit

(* _transform_tool_result_content(r) *)
Normalize(r) ==
    /\ applied' = [op |-> "normalize", arg |-> r, round |-> 1]
    /\ returned' = Returned(transform_tool_result_content(r))
    /\ UNCHANGED << host, chat, manager, link, traversed >>

(* the function applied to what it has just returned *)
NormalizeAgain ==
    /\ applied.op = "normalize"
    /\ applied.round = 1
    /\ applied' = [op |-> "normalize", arg |-> returned.value, round |-> 2]
    /\ returned' = Returned(transform_tool_result_content(returned.value))
    /\ UNCHANGED << host, chat, manager, link, traversed >>

NextNormalize ==
    \/ \E r \in ResultValues : Normalize(r)
    \/ NormalizeAgain

SpecNormalize == InitNormalize /\ [][NextNormalize]_vars

TextOnly(t) == PyList(<< PyDict([type |-> PyStr(<< "text" >>), text |-> t]) >>)

HasField(r, k) == IsDict(r) /\ k \in DOMAIN r.d

WellFormedContent(r) ==
    /\ HasField(r, "content")
    /\ IsList(r.d.content)
    /\ \A i \in 1..Len(r.d.content.l) :
          IsDict(r.d.content.l[i]) /\ "type" \in DOMAIN r.d.content.l[i].d

(* rules 2 to 6 of the list, the first applicable one *)
LaterRules(r) ==
    IF IsStr(r) THEN TextOnly(r)
    ELSE IF HasField(r, "error") THEN TextOnly(PyStr(<< "Error: " >> \o StrText(r.d.error)))
    ELSE IF HasField(r, "text") THEN TextOnly(r.d.text)
    ELSE IF IsDict(r) THEN TextOnly(PyStr(JsonText(r)))
    ELSE TextOnly(PyStr(StrText(r)))

FirstApplied == applied.op = "normalize" /\ applied.round = 1

(* C12 as stated: the result is that of the first applicable rule of the   *)
(* six, and a mapping whose content fails rule 1 goes through rules 3 to 5 *)
(* in that order.                                                          *)
C12_RulesInOrder ==
    FirstApplied =>
        returned.value = (IF WellFormedContent(applied.arg) THEN applied.arg.d.content
                          ELSE LaterRules(applied.arg))

(* C12: the result is that of the first applicable rule of the six, except *)
(* that a mapping whose content is a list holding an element that is not a *)
(* mapping with a type field becomes one text block holding the JSON of    *)
(* the whole mapping, whatever other fields it has; a mapping whose        *)
(* content is not a list goes through rules 3 to 5 in that order.          *)
C12_RulesWithRepair ==
    FirstApplied =>
        returned.value =
            (IF WellFormedContent(applied.arg) THEN applied.arg.d.content
             ELSE IF HasField(applied.arg, "content") /\ IsList(applied.arg.d.content)
             THEN TextOnly(PyStr(JsonText(applied.arg)))
             ELSE LaterRules(applied.arg))

C12_Witness ==
    /\ FirstApplied
    /\ applied.arg = PyDict([content |-> PyList(<< PyInt(1) >>), error |-> PyStr(<< "e" >>)])
    /\ returned.value = TextOnly(PyStr(JsonText(applied.arg)))

(* C13: normalization applied to its own output returns an equal value.    *)
C13_Idempotent ==
    (applied.op = "normalize" /\ applied.round = 2) => returned.value = applied.arg

----------------------------------------------------------------------------
(* The client manager on its own: get_all_tools, client by client, and     *)
(* call_tool, over servers whose tools/list answers change at any time     *)

SrvU == << "a", "_" >>
SrvAB == << "a", "_", "_", "b" >>
ToolXY == << "x", "_", "_", "y" >>

(* the client sets: names are the keys of mcpServers, any strings *)
ClientLists ==
    { << >>, << SrvA, SrvB >>, << SrvU, SrvA >>, << SrvAB, SrvB >> }

ListAnswers ==
    { << >>,
      << Descriptor(ToolP) >>,
      << Descriptor(ToolP), Nameless >>,
      ListFailure }

InitManager ==
    /\ ChatAtRest
    /\ host = NoHost
    /\ WireInit
    /\ clients \in ClientLists
    /\ cached_tools = PyNone
    /\ serverTools \in [{clients[i] : i \in 1..Len(clients)} -> ListAnswers]

Running == returned = Pending

RECURSIVE OriginsOf(_, _)
OriginsOf(name, tl) ==
    IF tl = << >> THEN << >>
    ELSE IF Malformed(Head(tl)) THEN << >>
    ELSE << [server |-> name, tool |-> Head(tl).name] >> \o OriginsOf(name, Tail(tl))

(* the cache while a traversal is under way: not touched *)
CacheDuring_partial(all_tools) == PyList(all_tools)
CacheDuring(all_tools) == cached_tools

(* get_all_tools(skip_refresh) up to its first list_tools, or its return   *)
(* of the cache                                                            *)
GetAllTools(skip_refresh) ==
    /\ ~Running
    /\ applied' = [op |-> "get_all_tools", skip_refresh |-> skip_refresh,
                   cache_before |-> cached_tools, at |-> 1, all_tools |-> << >>,
                   origins |-> << >>, asked |-> << >>, answers |-> << >>]
    /\ returned' = IF UseCache(skip_refresh) THEN Returned(cached_tools) ELSE Pending
    /\ UNCHANGED << host, chat, manager, link, traversed >>

(* one round of the loop over the clients: list_tools and the renaming *)
ListStep ==
    /\ Running
    /\ applied.op = "get_all_tools"
    /\ applied.at <= Len(clients)
    /\ LET name == clients[applied.at]
           all_tools == applied.all_tools \o RenameAll(name, list_tools(name))
       IN /\ applied' = [applied EXCEPT
                            !.at = @ + 1,
                            !.all_tools = all_tools,
                            !.origins = @ \o OriginsOf(name, list_tools(name)),
                            !.asked = Append(@, name),
                            !.answers = Append(@, serverTools[name])]
          /\ cached_tools' = CacheDuring(all_tools)
    /\ UNCHANGED << host, chat, clients, serverTools, returned, link, traversed >>

(* after the loop: the cache is replaced and the list returned *)
TraversalEnd ==
    /\ Running
    /\ applied.op = "get_all_tools"
    /\ applied.at > Len(clients)
    /\ cached_tools' = PyList(applied.all_tools)
    /\ returned' = Returned(PyList(applied.all_tools))
    /\ traversed' = PyList(applied.all_tools)
    /\ UNCHANGED << host, chat, clients, serverTools, applied, link >>

(* a server starts answering tools/list differently *)
ServerAnswers(name, answer) ==
    /\ name \in DOMAIN serverTools
    /\ serverTools[name] # answer
    /\ serverTools' = [serverTools EXCEPT ![name] = answer]
    /\ UNCHANGED << host, chat, clients, cached_tools, wire >>

CallNames ==
    { ToolP, Namespaced(SrvZ, ToolP), Namespaced(SrvA, ToolP),
      Namespaced(SrvA, ToolXY), Namespaced(SrvAB, ToolP) }

CallArguments == { EmptyDict, PyDict([url |-> PyStr(<< "x" >>)]) }

(* MCPClientManager.call_tool(name, arguments), the client answering       *)
(* `outcome` when the call is delegated                                    *)
CallTool(name, arguments, outcome) ==
    /\ ~Running
    /\ outcome \in CallResults(name)
    /\ applied' = [op |-> "call_tool", name |-> name, arguments |-> arguments,
                   delegated |-> IF IsNone(ManagerAnswer(name)) THEN << Delegation(name, arguments) >>
                                 ELSE << >>]
    /\ returned' = Returned(outcome)
    /\ UNCHANGED << host, chat, manager, link, traversed >>

NextManager ==
    \/ \E skip_refresh \in BOOLEAN : GetAllTools(skip_refresh)
    \/ ListStep
    \/ TraversalEnd
    \/ \E name \in {SrvA, SrvB, SrvU, SrvAB}, answer \in ListAnswers : ServerAnswers(name, answer)
    \/ \E name \in CallNames, arguments \in CallArguments, outcome \in ClientOutcomes \cup
           {ManagerAnswer(n) : n \in {x \in CallNames : ~IsNone(ManagerAnswer(x))}} :
           CallTool(name, arguments, outcome)

SpecManager == InitManager /\ [][NextManager]_vars


Traversed == applied.op = "get_all_tools" /\ returned.kind = "return" /\ applied.asked # << >>

(* C14: for every descriptor returned by get_all_tools, splitting its name *)
(* on the first "__" gives the server that listed the tool and the tool's  *)
(* original name, and call_tool with that name is delegated to that server *)
(* with the original name.                                                 *)
C14_Reversible ==
    Traversed =>
        \A i \in 1..Len(returned.value.l) :
            LET n == returned.value.l[i].name
                o == applied.origins[i]
            IN /\ SplitFirst(n) = << o.server, o.tool >>
               /\ IsNone(ManagerAnswer(n))
               /\ Delegation(n, EmptyDict).server = o.server
               /\ Delegation(n, EmptyDict).tool = o.tool

FromCache == applied.op = "get_all_tools" /\ applied.skip_refresh /\ ~IsNone(applied.cache_before)

Broken(answer) == answer = ListFailure \/ \E i \in 1..Len(answer) : Malformed(answer[i])

RECURSIVE WholeOrNothing(_, _)
WholeOrNothing(cl, answers) ==
    IF cl = << >> THEN << >>
    ELSE (IF Broken(Head(answers)) THEN << >> ELSE RenameAll(Head(cl), Head(answers)))
         \o WholeOrNothing(Tail(cl), Tail(answers))

(* C16: after a traversal the catalog holds, client by client, all the     *)
(* renamed tools of every client whose listing went well and nothing of a  *)
(* client whose listing failed or held a malformed descriptor.             *)
C16_FailingClient ==
    (applied.op = "get_all_tools" /\ returned.kind = "return" /\ Len(applied.answers) = Len(clients)) =>
        returned.value.l = WholeOrNothing(clients, applied.answers)

(* C17: call_tool returns the invalid-format record for a name without     *)
(* "__" and the not-found record for a prefix that is no client, both      *)
(* without contacting a server; otherwise it delegates one call to the     *)
(* client named by the part before the first "__", with the part after it  *)
(* as tool name and the arguments unchanged.  It always returns.           *)
C17_Routing ==
    (applied.op = "call_tool") =>
        /\ returned.kind = "return"
        /\ IF ~HasSep(applied.name)
           THEN /\ returned.value = ErrorRecord(<< "Invalid tool name format: " >> \o applied.name)
                /\ applied.delegated = << >>
           ELSE LET cut == FirstSep(applied.name)
                    prefix == SubSeq(applied.name, 1, cut - 1)
                    rest == SubSeq(applied.name, cut + 2, Len(applied.name))
                IN IF ~InClients(prefix)
                   THEN /\ returned.value = ErrorRecord(<< "Server " >> \o prefix \o << " not found" >>)
                        /\ applied.delegated = << >>
                   ELSE applied.delegated =
                            << [server |-> prefix, tool |-> rest, arguments |-> applied.arguments] >>

C17_Witness ==
    /\ applied.op = "call_tool"
    /\ applied.name = Namespaced(SrvA, ToolXY)
    /\ applied.delegated = << [server |-> SrvA, tool |-> ToolXY,
                               arguments |-> PyDict([url |-> PyStr(<< "x" >>)])] >>
    /\ returned.value = ErrorRecord(<< "boom" >>)

----------------------------------------------------------------------------
(* One MCPClient on its own: initialize, list_tools, call_tool and         *)
(* shutdown in any order, the transport connecting or not and answering    *)
(* each request in any way                                                 *)

PyBool(b) == [ty |-> "bool", b |-> b]

Request(id, method) == [id |-> id, method |-> method]
Notification(method) == [method |-> method]

(* what transport.send_message can do with the request `id`: return a      *)
(* response with a result, with an error object, with an error object      *)
(* without message, with neither, or raise                                 *)
OutcomeShapes == { "result", "error", "bare", "empty", "raise" }

ToolResult == PyDict([content |-> PyList(<< TextItem(<< "pong" >>) >>)])

Response(m) == [kind |-> "response", msg |-> m]
SendRaises(text) == [kind |-> "raise", text |-> text]

Outcome(shape, id) ==
    IF shape = "result" THEN Response([id |-> id, result |-> ToolResult])
    ELSE IF shape = "error" THEN Response([id |-> id, error |-> [message |-> << "denied" >>]])
    ELSE IF shape = "bare" THEN Response([id |-> id, error |-> [code |-> 1]])
    ELSE IF shape = "empty" THEN Response([id |-> id])
    ELSE SendRaises(<< "Timeout waiting for response" >>)

(* MCPClient._get_next_id: the counter after handing out an id *)
Bump_stay(n) == n
Bump(n) == n + 1

ClientState == [next_id |-> next_id, initialized |-> initialized, sent |-> sent,
                state |-> transport.state]

(* MCPClient.shutdown on the state c *)
ShutDown(c) ==
    [c EXCEPT !.initialized = FALSE,
              !.state = IF c.state = "unset" THEN "unset" ELSE "down"]

(* MCPClient.initialize on the state c: the state left and the value       *)
(* returned                                                                *)
InitializeResult(c, connects, shape) ==
    IF transport.config = "bad" THEN [c |-> c, ok |-> FALSE]
    ELSE IF ~connects THEN [c |-> [c EXCEPT !.state = "down"], ok |-> FALSE]
    ELSE LET out == Outcome(shape, c.next_id)
             asked == [c EXCEPT !.next_id = Bump(c.next_id),
                                !.sent = Append(c.sent, Request(c.next_id, "initialize")),
                                !.state = "up"]
         IN IF out.kind = "response" /\ "result" \in DOMAIN out.msg
            THEN [c |-> [asked EXCEPT !.initialized = TRUE,
                                      !.sent = Append(asked.sent, Notification("notifications/initialized"))],
                  ok |-> TRUE]
            ELSE [c |-> ShutDown(asked), ok |-> FALSE]

(* `if not self.initialized: await self.initialize()` *)
LazyInitialize(c, connects, shape) ==
    IF c.initialized THEN c ELSE InitializeResult(c, connects, shape).c

(* the request built after the lazy initialization and what the transport  *)
(* does with it: no transport object, a transport that is not running, or  *)
(* the outcome of a running one                                            *)
AskResult(c, method, shape) ==
    [c |-> [c EXCEPT !.next_id = Bump(c.next_id),
                     !.sent = IF c.state = "unset" THEN c.sent
                              ELSE Append(c.sent, Request(c.next_id, method))],
     out |-> IF c.state = "unset" THEN SendRaises(<< "'NoneType' object has no attribute 'send_message'" >>)
             ELSE IF c.state = "down" THEN SendRaises(<< "Server is not running" >>)
             ELSE Outcome(shape, c.next_id)]

(* the except branch of MCPClient.call_tool *)
TransportFailure_raise(text) == Raised(text)
TransportFailure(text) == Returned(ErrorRecord(text))

(* MCPClient.call_tool, from the outcome of send_message on *)
call_tool_value(out) ==
    IF out.kind = "raise" THEN TransportFailure(out.text)
    ELSE IF "result" \in DOMAIN out.msg THEN Returned(out.msg.result)
    ELSE IF "error" \in DOMAIN out.msg
    THEN (IF "message" \in DOMAIN out.msg.error
          THEN Returned(ErrorRecord(out.msg.error.message))
          ELSE Returned(ErrorRecord(<< "Unknown error" >>)))
    ELSE Returned(ErrorRecord(<< "Invalid response from server" >>))

SetClient(c) ==
    /\ next_id' = c.next_id
    /\ initialized' = c.initialized
    /\ sent' = c.sent
    /\ transport' = [transport EXCEPT !.state = c.state]

Initialize(connects, shape) ==
    /\ next_id <= MaxId
    /\ LET r == InitializeResult(ClientState, connects, shape)
       IN /\ SetClient(r.c)
          /\ applied' = [op |-> "initialize"]
          /\ returned' = Returned(PyBool(r.ok))
    /\ UNCHANGED << host, chat, manager, incoming, traversed >>

ListToolsC(connects, initShape, shape) ==
    /\ next_id <= MaxId
    /\ LET r == AskResult(LazyInitialize(ClientState, connects, initShape), "tools/list", shape)
       IN /\ SetClient(r.c)
          /\ applied' = [op |-> "list_tools"]
          /\ returned' = Returned(PyList(IF r.out.kind = "response" /\ "result" \in DOMAIN r.out.msg
                                         THEN << Descriptor(ToolP) >> ELSE << >>))
    /\ UNCHANGED << host, chat, manager, incoming, traversed >>

CallToolC(connects, initShape, shape) ==
    /\ next_id <= MaxId
    /\ LET r == AskResult(LazyInitialize(ClientState, connects, initShape), "tools/call", shape)
       IN /\ SetClient(r.c)
          /\ applied' = [op |-> "client.call_tool", out |-> r.out]
          /\ returned' = call_tool_value(r.out)
    /\ UNCHANGED << host, chat, manager, incoming, traversed >>

Shutdown ==
    /\ SetClient(ShutDown(ClientState))
    /\ applied' = [op |-> "shutdown"]
    /\ returned' = Returned(PyNone)
    /\ UNCHANGED << host, chat, manager, incoming, traversed >>

InitClient ==
    /\ ChatAtRest
    /\ host = NoHost
    /\ ManagerAtRest
    /\ applied = NoOp
    /\ returned = NoCall
    /\ next_id = 1
    /\ initialized = FALSE
    /\ sent = << >>
    /\ transport \in {[NoTransport EXCEPT !.config = c] : c \in {"ok", "bad"}}
    /\ incoming = << >>
    /\ traversed = PyNone

NextClient ==
    \/ \E connects \in BOOLEAN, shape \in OutcomeShapes : Initialize(connects, shape)
    \/ \E connects \in BOOLEAN, initShape \in {"result", "raise"}, shape \in OutcomeShapes :
           ListToolsC(connects, initShape, shape)
    \/ \E connects \in BOOLEAN, initShape \in {"result", "raise"}, shape \in OutcomeShapes :
           CallToolC(connects, initShape, shape)
    \/ Shutdown

SpecClient == InitClient /\ [][NextClient]_vars

(* C18: MCPClient.call_tool always returns: the result of a response that  *)
(* has one, {error: message} for a response with an error object, and an   *)
(* {error: string} record for a transport failure or any other response.   *)
C18_NeverRaises ==
    (applied.op = "client.call_tool") =>
        /\ returned.kind = "return"
        /\ IF applied.out.kind = "response" /\ "result" \in DOMAIN applied.out.msg
           THEN returned.value = applied.out.msg.result
           ELSE IF applied.out.kind = "response" /\ "error" \in DOMAIN applied.out.msg
                   /\ "message" \in DOMAIN applied.out.msg.error
           THEN returned.value = ErrorRecord(applied.out.msg.error.message)
           ELSE /\ IsDict(returned.value)
                /\ DOMAIN returned.value.d = { "error" }
                /\ IsStr(returned.value.d.error)

C18_Witness ==
    /\ applied.op = "client.call_tool"
    /\ applied.out.kind = "raise"
    /\ transport.state = "up"
    /\ returned = Returned(ErrorRecord(<< "Timeout waiting for response" >>))

WithId == SelectSeq(sent, LAMBDA m : "id" \in DOMAIN m)

(* C19: the requests a client hands to its transport carry the ids 1, 2,   *)
(* ... in strictly increasing order, none used twice, whatever the order   *)
(* of initialize, list_tools, call_tool, shutdown and re-initialization;   *)
(* notifications carry no id.                                              *)
C19_IncreasingIds ==
    /\ \A i \in 1..Len(WithId) : \A j \in 1..Len(WithId) : i < j => WithId[i].id < WithId[j].id
    /\ WithId # << >> => WithId[1].id = 1
    /\ \A i \in 1..Len(WithId) : WithId[i].id < next_id
    /\ \A i \in 1..Len(sent) :
          ("id" \in DOMAIN sent[i]) <=> (sent[i].method # "notifications/initialized")

C19_Witness ==
    /\ Len(WithId) = 4
    /\ WithId[1].method = "initialize"
    /\ WithId[3].method = "initialize"
    /\ WithId[4].method = "tools/call"
    /\ Len(sent) = 6

----------------------------------------------------------------------------
(* One connected transport on its own: send_message of StdioClient and of  *)
(* SSEClient, reading what the server writes one message at a time         *)

Answer(id) == [id |-> id, result |-> << "r" >>]
InvalidLine == [raw |-> << "not json" >>]
Scalar == [scalar |-> 1]
Progress == Notification("notifications/progress")

(* what a server can write: answers to any request sent so far (late ones  *)
(* included), notifications, a line that is not JSON, a JSON scalar        *)
ServerMessages == {Answer(id) : id \in 1..(next_id - 1)} \cup { Progress, InvalidLine, Scalar }

EmptyReply == [k \in {} |-> << >>]

IsNotification(m) == "id" \notin DOMAIN m /\ "method" \in DOMAIN m

(* `"id" in response and response["id"] == request_id` *)
Matches_any(m, id) == "id" \in DOMAIN m
Matches(m, id) == "id" \in DOMAIN m /\ m.id = id

InitTransport ==
    /\ ChatAtRest
    /\ host = NoHost
    /\ ManagerAtRest
    /\ applied = NoOp
    /\ returned = NoCall
    /\ next_id = 1
    /\ initialized = TRUE
    /\ sent = << >>
    /\ transport \in {[config |-> "ok", kind |-> k, state |-> "up"] : k \in {"stdio", "sse"}}
    /\ incoming = << >>
    /\ traversed = PyNone

(* send_message(request) up to the first read *)
SendRequest ==
    /\ ~Running
    /\ next_id <= MaxId
    /\ applied' = [op |-> "send_message", message |-> Request(next_id, "tools/call"), skipped |-> {}]
    /\ returned' = Pending
    /\ next_id' = Bump(next_id)
    /\ sent' = Append(sent, Request(next_id, "tools/call"))
    /\ UNCHANGED << host, chat, manager, initialized, transport, incoming, traversed >>

(* SSEClient.send_message when the POST is answered with a status other   *)
(* than 200 or 202: RuntimeError, nothing is read                          *)
SendRefused ==
    /\ ~Running
    /\ transport.kind = "sse"
    /\ next_id <= MaxId
    /\ applied' = [op |-> "send_message", message |-> Request(next_id, "tools/call"), skipped |-> {}]
    /\ returned' = Raised(<< "Server returned error" >>)
    /\ next_id' = Bump(next_id)
    /\ sent' = Append(sent, Request(next_id, "tools/call"))
    /\ UNCHANGED << host, chat, manager, initialized, transport, incoming, traversed >>

(* send_message(notification): written, nothing read *)
SendNotification ==
    /\ ~Running
    /\ Len(sent) < MaxId
    /\ applied' = [op |-> "send_message", message |-> Notification("notifications/initialized"),
                   skipped |-> {}]
    /\ returned' = Returned(EmptyReply)
    /\ sent' = Append(sent, Notification("notifications/initialized"))
    /\ UNCHANGED << host, chat, manager, next_id, initialized, transport, incoming, traversed >>

(* the server writes a line to stdout, or an SSE message event arrives:    *)
(* _handle_event queues a message event only when it parses as JSON        *)
ServerWrites(m) ==
    /\ Len(incoming) < MaxQueue
    /\ m \in ServerMessages
    /\ ~(transport.kind = "sse" /\ m = InvalidLine)
    /\ incoming' = Append(incoming, m)
    /\ UNCHANGED << host, chat, manager, applied, returned, next_id, initialized, sent, transport, traversed >>

(* a message with an id other than the awaited one: StdioClient logs a     *)
(* warning and reads on, SSEClient puts the event back at the end of the   *)
(* queue `for other waiters`                                               *)
SetAside_dropped(kind, queue) == Tail(queue)
SetAside(kind, queue) == IF kind = "sse" THEN Append(Tail(queue), Head(queue)) ELSE Tail(queue)

(* one round of the reading loop on the message at the head *)
ReadOne ==
    /\ Running
    /\ applied.op = "send_message"
    /\ incoming # << >>
    /\ LET m == Head(incoming)
       IN IF "raw" \in DOMAIN m
          THEN /\ incoming' = Tail(incoming)
               /\ applied' = [applied EXCEPT !.skipped = @ \cup {"invalid"}]
               /\ UNCHANGED returned
          ELSE IF "scalar" \in DOMAIN m
          THEN /\ incoming' = Tail(incoming)
               /\ returned' = Raised(<< "TypeError" >>)
               /\ UNCHANGED applied
          ELSE IF IsNotification(m)
          THEN /\ incoming' = Tail(incoming)
               /\ applied' = [applied EXCEPT !.skipped = @ \cup {"notification"}]
               /\ UNCHANGED returned
          ELSE IF Matches(m, applied.message.id)
          THEN /\ incoming' = Tail(incoming)
               /\ returned' = Returned(m)
               /\ UNCHANGED applied
          ELSE /\ incoming' = SetAside(transport.kind, incoming)
               /\ applied' = [applied EXCEPT !.skipped = @ \cup {"unmatched"}]
               /\ UNCHANGED returned
    /\ UNCHANGED << host, chat, manager, next_id, initialized, sent, transport, traversed >>

(* the overall deadline passes *)
TimeOut ==
    /\ Running
    /\ applied.op = "send_message"
    /\ returned' = Raised(<< "Timeout waiting for response" >>)
    /\ UNCHANGED << host, chat, manager, applied, link, traversed >>

NextTransport ==
    \/ SendRequest
    \/ SendRefused
    \/ SendNotification
    \/ \E m \in ServerMessages : ServerWrites(m)
    \/ ReadOne
    \/ TimeOut

SpecTransport == InitTransport /\ [][NextTransport]_vars

(* C20: what send_message returns for a request with an id is a message    *)
(* with that id; notifications, lines that are not JSON and responses to   *)
(* other requests, late ones included, are never returned.                 *)
C20_MatchingId ==
    (applied.op = "send_message" /\ "id" \in DOMAIN applied.message /\ returned.kind = "return") =>
        /\ "id" \in DOMAIN returned.value
        /\ returned.value.id = applied.message.id

C20_Witness ==
    /\ applied.op = "send_message"
    /\ returned.kind = "return"
    /\ "id" \in DOMAIN applied.message
    /\ applied.message.id = 2
    /\ returned.value = Answer(2)
    /\ applied.skipped = { "notification", "unmatched" }

(* C31: traffic that is not the awaited response (notifications, other     *)
(* ids, lines that are not JSON, JSON values that are not objects) never   *)
(* makes a send fail: a send whose request went out returns the matching   *)
(* response or fails with the timeout, nothing else.                       *)
C31_OnlyTimeout ==
    (applied.op = "send_message" /\ returned.kind = "raise") =>
        returned.msg \in { << "Timeout waiting for response" >>, << "Server returned error" >> }

(* the state the claim excludes: the request went out, the server wrote    *)
(* the JSON value 1 and the send ended with the TypeError of               *)
(* `"id" not in response`                                                  *)
C31_ScalarRaises ==
    /\ applied.op = "send_message"
    /\ "id" \in DOMAIN applied.message
    /\ returned = Raised(<< "TypeError" >>)

Count(queue, m) == Cardinality({ i \in 1..Len(queue) : queue[i] = m })

(* C32: no response is lost on the SSE transport: a queued event that      *)
(* carries an id leaves the queue only by being returned to the send that  *)
(* waits for that id; while a send waits for another id the event is put   *)
(* back, and only notifications are discarded.                             *)
C32_NoResponseLost ==
    [][ transport.kind = "sse" =>
          \A i \in 1..Len(incoming) :
              LET m == incoming[i]
              IN "id" \in DOMAIN m =>
                    \/ Count(incoming', m) >= Count(incoming, m)
                    \/ /\ Count(incoming', m) = Count(incoming, m) - 1
                       /\ returned = Pending
                       /\ returned' = Returned(m)
                       /\ applied.message.id = m.id ]_vars

(* request 1 timed out; while request 2 waits both answers arrive, the     *)
(* late one is put back and stays, the awaited one is returned             *)
C32_Witness ==
    /\ transport.kind = "sse"
    /\ applied.op = "send_message"
    /\ "id" \in DOMAIN applied.message
    /\ applied.message.id = 2
    /\ returned = Returned(Answer(2))
    /\ "unmatched" \in applied.skipped
    /\ incoming = << Answer(1) >>

----------------------------------------------------------------------------
(* The SSE event queue over an unbounded run of sends.  Request ids only   *)
(* grow, so for the queue an id is either the one of the latest request    *)
(* ("awaited") or the one of a request issued before it ("earlier"): an    *)
(* event of the second kind matches no send that is issued from then on.   *)

Due == [id |-> "awaited", result |-> << "r" >>]
Late == [id |-> "earlier", result |-> << "r" >>]

(* a new request takes a fresh id: what answered the one before it no      *)
(* longer answers the awaited one                                          *)
Aged(queue) == [i \in 1..Len(queue) |-> IF queue[i] = Due THEN Late ELSE queue[i]]

InitQueue ==
    /\ ChatAtRest
    /\ host = NoHost
    /\ ManagerAtRest
    /\ applied = NoOp
    /\ returned = NoCall
    /\ next_id = 1
    /\ initialized = TRUE
    /\ sent = << >>
    /\ transport = [config |-> "ok", kind |-> "sse", state |-> "up"]
    /\ incoming = << >>
    /\ traversed = PyNone

(* SSEClient.send_message of a request: the POST is accepted and           *)
(* _wait_for_response starts                                               *)
SendAgain ==
    /\ ~Running
    /\ applied' = [op |-> "send_message", message |-> [id |-> "awaited", method |-> "tools/call"],
                   skipped |-> {}]
    /\ returned' = Pending
    /\ incoming' = Aged(incoming)
    /\ UNCHANGED << host, chat, manager, next_id, initialized, sent, transport, traversed >>

(* _handle_event queues a message event: a notification, a JSON value      *)
(* that is not an object, or the response to the latest request, which     *)
(* may have timed out in the meantime                                      *)
EventArrives(m) ==
    /\ Len(incoming) < MaxQueue
    /\ m \in { Due, Progress, Scalar }
    /\ m = Due => applied.op = "send_message"
    /\ incoming' = Append(incoming, m)
    /\ UNCHANGED << host, chat, manager, applied, returned, next_id, initialized, sent, transport, traversed >>

NextQueue ==
    \/ SendAgain
    \/ \E m \in { Due, Progress, Scalar } : EventArrives(m)
    \/ ReadOne
    \/ TimeOut

SpecQueue == InitQueue /\ [][NextQueue]_vars

(* sends keep being issued, a waiting send keeps reading, and its deadline *)
(* passes if nothing ends it before                                        *)
FairQueue == InitQueue /\ [][NextQueue]_vars /\ WF_vars(SendAgain) /\ WF_vars(ReadOne) /\ WF_vars(TimeOut)

InQueue(m) == \E i \in 1..Len(incoming) : incoming[i] = m

(* C38: every event put on the SSE queue is eventually removed for good    *)
(* as long as sends keep being issued: a response to a request that has    *)
(* already ended does not stay on the queue forever.                       *)
C38_Drained == InQueue(Late) ~> ~InQueue(Late)

(* the late response after one more complete send: still queued *)
C38_StillQueued ==
    /\ InQueue(Late)
    /\ returned = Returned(Due)
    /\ "unmatched" \in applied.skipped

----------------------------------------------------------------------------
(* The endpoint of one SSEClient: what _handle_event stores from the       *)
(* events of the stream and where send_message posts.  Event data and URLs *)
(* are sequences of chunks.                                                *)

base_url == << "http://srv" >>
InitialSession == << "mcp-host-uuid" >>

(* data of an endpoint event: relative with a session id, relative with    *)
(* another one, absolute without any                                       *)
EndpointData ==
    { << "/", "messages", "?", "session_id=", "s1" >>,
      << "/", "messages", "?", "session_id=", "s2" >>,
      << "http://other", "/", "post" >> }

(* re.search(r'session_id=([^&\s]+)', event_data) *)
HasSession(data) == \E i \in 1..(Len(data) - 1) : data[i] = "session_id="
SessionOf(data) == << data[(CHOOSE i \in 1..(Len(data) - 1) : data[i] = "session_id=") + 1] >>

(* the `endpoint` branch of _handle_event *)
handle_endpoint(t, data) ==
    [t EXCEPT !.server_endpoint = data,
              !.session_id = IF HasSession(data) THEN SessionOf(data) ELSE @,
              !.endpoint_ready = TRUE]

(* the URL send_message posts to *)
message_url(t) ==
    IF Head(t.server_endpoint) = "/" THEN base_url \o t.server_endpoint ELSE t.server_endpoint

(* after connect has opened the stream and started _process_sse_events;    *)
(* `first` records the data of the first endpoint event and the session id *)
(* after it                                                                *)
InitEndpoint ==
    /\ ChatAtRest
    /\ host = NoHost
    /\ ManagerAtRest
    /\ applied = NoOp
    /\ returned = NoCall
    /\ next_id = 1
    /\ initialized = FALSE
    /\ sent = << >>
    /\ transport = [config |-> "ok", kind |-> "sse", state |-> "connecting",
                    server_endpoint |-> << >>, session_id |-> InitialSession,
                    endpoint_ready |-> FALSE]
    /\ incoming = << >>
    /\ traversed = [first |-> << >>, session |-> << >>]

(* an endpoint event arrives on the stream *)
EndpointEvent(data) ==
    /\ transport' = handle_endpoint(transport, data)
    /\ traversed' = IF traversed.first = << >>
                    THEN [first |-> data, session |-> transport'.session_id]
                    ELSE traversed
    /\ UNCHANGED << host, chat, manager, applied, returned, next_id, initialized, sent, incoming >>

(* a message event arrives on the stream *)
MessageEvent(m) ==
    /\ Len(incoming) < MaxQueue
    /\ incoming' = Append(incoming, m)
    /\ UNCHANGED << host, chat, manager, applied, returned, next_id, initialized, sent, transport, traversed >>

(* connect stops waiting: endpoint_ready is set, or the 10 s have passed *)
ConnectReturns ==
    /\ transport.state = "connecting"
    /\ transport' = [transport EXCEPT !.state = IF transport.endpoint_ready THEN "connected" ELSE "timed out"]
    /\ applied' = [op |-> "connect"]
    /\ returned' = Returned(PyBool(transport.endpoint_ready))
    /\ UNCHANGED << host, chat, manager, next_id, initialized, sent, incoming, traversed >>

(* send_message(notification): RuntimeError without an endpoint URL,       *)
(* otherwise one POST to the message URL                                   *)
Post ==
    /\ Len(sent) < MaxSends
    /\ applied' = [op |-> "send_message", message |-> Notification("notifications/initialized")]
    /\ IF transport.server_endpoint = << >>
       THEN /\ returned' = Raised(<< "No endpoint URL received from server" >>)
            /\ UNCHANGED sent
       ELSE /\ returned' = Returned(EmptyReply)
            /\ sent' = Append(sent, [url |-> message_url(transport), session |-> transport.session_id])
    /\ UNCHANGED << host, chat, manager, next_id, initialized, transport, incoming, traversed >>

NextEndpoint ==
    \/ \E data \in EndpointData : EndpointEvent(data)
    \/ \E m \in { Progress, Answer(1) } : MessageEvent(m)
    \/ ConnectReturns
    \/ Post

SpecEndpoint == InitEndpoint /\ [][NextEndpoint]_vars

FirstUrl == IF Head(traversed.first) = "/" THEN base_url \o traversed.first ELSE traversed.first

(* C33: every POST goes to the URL announced by the first endpoint event   *)
(* of the connection; no POST is issued before that event; readiness is    *)
(* signalled only once the URL is stored; later events on the stream       *)
(* change neither the POST URL nor the session id.                         *)
C33_FirstEndpoint ==
    /\ sent # << >> => traversed.first # << >>
    /\ \A i \in 1..Len(sent) : sent[i].url = FirstUrl
    /\ transport.endpoint_ready => transport.server_endpoint # << >>
    /\ traversed.first # << >> =>
          /\ transport.server_endpoint = traversed.first
          /\ transport.session_id = traversed.session

(* the parts of the claim that hold: no POST before an endpoint event, and *)
(* readiness only with a stored URL                                        *)
C33_NoPostBefore ==
    /\ sent # << >> => traversed.first # << >>
    /\ transport.endpoint_ready => transport.server_endpoint # << >>

(* a POST after a second endpoint event went elsewhere than the first one  *)
C33_Moved ==
    /\ Len(sent) = 2
    /\ sent[1].url = FirstUrl
    /\ sent[2].url # FirstUrl
    /\ sent[2].session # sent[1].session

----------------------------------------------------------------------------
(* The tool map of a ChatSession over the client sets that a configuration *)
(* can give and tools/list answers that change between refreshes           *)

MappingAnswers == { << >>, << Descriptor(ToolP) >>, << Descriptor(ToolP), Descriptor(ToolQ) >> }

InitMapping ==
    /\ ChatAtRest
    /\ host = NoHost
    /\ WireInit
    /\ clients \in ClientLists
    /\ cached_tools = PyNone
    /\ serverTools \in [{clients[i] : i \in 1..Len(clients)} -> MappingAnswers]

RECURSIVE Origins(_)
Origins(cl) ==
    IF cl = << >> THEN << >>
    ELSE OriginsOf(Head(cl), list_tools(Head(cl))) \o Origins(Tail(cl))

(* ChatSession.refresh_tool_mapping(): a fresh get_all_tools and the map   *)
(* rebuilt from the list it returns                                        *)
RefreshToolMapping ==
    /\ tool_mapping' = refresh_tool_mapping(get_all_tools(FALSE).tools)
    /\ cached_tools' = get_all_tools(FALSE).cache
    /\ applied' = [op |-> "refresh_tool_mapping", origins |-> Origins(clients),
                   before |-> tool_mapping]
    /\ returned' = Returned(PyList(get_all_tools(FALSE).tools))
    /\ UNCHANGED << host, message_window, messages, pc, current_iteration, tools,
                    tools_to_use, tool_calls, call_index, inflight, result, llmCount,
                    catalog0, events, llm_response, call_result, epoch, log,
                    clients, serverTools, link, traversed >>

NextMapping ==
    \/ RefreshToolMapping
    \/ \E name \in DOMAIN serverTools : \E answer \in MappingAnswers : ServerAnswers(name, answer)

SpecMapping == InitMapping /\ [][NextMapping]_vars

LastWith(o, tool) == CHOOSE j \in 1..Len(o) : o[j].tool = tool /\ \A k \in (j + 1)..Len(o) : o[k].tool # tool

(* the map required of a refresh over the catalog with origins o *)
MapsAsClaimed(o) ==
    /\ \A i \in 1..Len(o) :
          /\ o[i].tool \in DOMAIN tool_mapping
          /\ tool_mapping[o[i].tool] = Namespaced(o[LastWith(o, o[i].tool)].server, o[i].tool)
          /\ get_namespaced_tool_name(o[i].tool) = PyStr(tool_mapping[o[i].tool])
    /\ \A i \in 1..Len(o) :
          /\ Namespaced(o[i].server, o[i].tool) \in DOMAIN tool_mapping
          /\ tool_mapping[Namespaced(o[i].server, o[i].tool)] = Namespaced(o[i].server, o[i].tool)
    /\ \A k \in DOMAIN tool_mapping :
          \E i \in 1..Len(o) : k = o[i].tool \/ k = Namespaced(o[i].server, o[i].tool)

(* C34: after each refresh the map sends every unqualified tool name to    *)
(* the namespaced name of the last descriptor in catalog order that has    *)
(* it, every namespaced name to itself, and holds no other entry (none     *)
(* left from an earlier refresh).                                          *)
C34_LastWriter ==
    applied.op = "refresh_tool_mapping" => MapsAsClaimed(applied.origins)

(* the same over the client sets whose server names hold no underscore *)
PlainNames == \A i \in 1..Len(clients) : \A j \in 1..Len(clients[i]) : clients[i][j] # "_"

C34_PlainServers ==
    (applied.op = "refresh_tool_mapping" /\ PlainNames) => MapsAsClaimed(applied.origins)

(* two servers list p, the second one wins; an entry of the map before     *)
(* the refresh is gone                                                     *)
C34_Collision ==
    /\ applied.op = "refresh_tool_mapping"
    /\ clients = << SrvA, SrvB >>
    /\ Len(applied.origins) = 2
    /\ tool_mapping[ToolP] = Namespaced(SrvB, ToolP)
    /\ ToolQ \in DOMAIN applied.before
    /\ ToolQ \notin DOMAIN tool_mapping

----------------------------------------------------------------------------
(* The chat loop under a window of several messages, with replies that     *)
(* hold no text and tool results with and without a text item: the         *)
(* fallback of _generate_final_response over the histories it meets        *)

FallbackWindow == MaxW + 4

ImageOnly == PyDict([content |-> PyList(<< PyDict([type |-> PyStr(<< "image" >>)]) >>)])
Pong == PyDict([content |-> PyList(<< TextItem(<< "pong" >>) >>)])

(* what mcp_manager.call_tool returns: its own error record, or a result   *)
(* of the server with or without a text item                               *)
FallbackResults(namespaced_tool_name) ==
    IF IsNone(ManagerAnswer(namespaced_tool_name)) THEN { Pong, ImageOnly }
    ELSE { ManagerAnswer(namespaced_tool_name) }

(* replies without text: no block at all, or one tool_use *)
FallbackReplies == { ReplyOf(<< >>, sp) : sp \in UNION {[1..n -> ModelCalls] : n \in 0..1} }

InitFallback ==
    /\ message_window = FallbackWindow
    /\ messages = << >>
    /\ tool_mapping = EmptyMapping
    /\ clients = << SrvA, SrvB >>
    /\ cached_tools = PyNone
    /\ serverTools = [s \in {SrvA, SrvB} |-> << Descriptor(ToolP) >>]
    /\ pc = "idle"
    /\ current_iteration = 0
    /\ tools = << >>
    /\ tools_to_use = PyNone
    /\ tool_calls = << >>
    /\ call_index = 1
    /\ inflight = PyNone
    /\ result = PyNone
    /\ llmCount = 0
    /\ catalog0 = << >>
    /\ events = << >>
    /\ llm_response = NoReply
    /\ call_result = NoCall
    /\ epoch = 0
    /\ log = << >>
    /\ WireInit

NextFallback ==
    \/ ProcessPrompt(<< "hi" >>)
    \/ (pc = "llm1" /\ \E reply \in FallbackReplies : LLMCall1(reply))
    \/ ToolStart
    \/ (pc = "await" /\ \E r \in FallbackResults(inflight.name) : ToolReturn(r))
    \/ (pc = "llm2" /\ \E reply \in FallbackReplies : LLMCall2(reply))

SpecFallback == InitFallback /\ [][NextFallback]_vars

(* the fallback as the claim words it *)
WithText(hist) ==
    { i \in 1..Len(hist) : hist[i].role = "tool" /\ Truthy(ToolData(hist[i].content[1].content)) }

Answered(hist, i) ==
    { u \in UNION { { ToolUses(hist[j].content)[k] : k \in 1..Len(ToolUses(hist[j].content)) } :
                      j \in { j2 \in 1..(i - 1) : hist[j2].role = "assistant" } } :
        u.id = hist[i].content[1].tool_use_id }

RecentUsers(hist) ==
    { i \in 1..Len(hist) : /\ i > Len(hist) - 3
                           /\ hist[i].role = "user"
                           /\ get_text_content(hist[i]) # << >> }

ClaimedFallback(hist) ==
    IF WithText(hist) # {}
    THEN LET i == CHOOSE i \in WithText(hist) : \A j \in WithText(hist) : j <= i
         IN << "I retrieved the following information" >>
            \o (IF Answered(hist, i) # {}
                THEN << " using the " >> \o (CHOOSE u \in Answered(hist, i) : TRUE).name
                ELSE << >>)
            \o << ":\n\n" >> \o Truncate(ToolData(hist[i].content[1].content).s, 500, << "..." >>)
    ELSE IF RecentUsers(hist) # {}
    THEN LET i == CHOOSE i \in RecentUsers(hist) : \A j \in RecentUsers(hist) : j <= i
         IN << "I've processed your request about \"" >>
            \o Truncate(get_text_content(hist[i]), 50, << "..." >>)
            \o << "\" but I'm having trouble providing a complete response. Could you please clarify or rephrase your question?" >>
    ELSE << "I'm having trouble generating a response. Could you please provide more details or rephrase your question?" >>

(* the turn ended on a reply without text *)
FellBack ==
    /\ pc = "idle"
    /\ ~IsNone(result)
    /\ messages # << >>
    /\ messages[Len(messages)].role = "assistant"
    /\ get_text_content(messages[Len(messages)]) = << >>

(* C35: when a reply has no text and starts no further tool round, the     *)
(* fallback reports the most recent text payload of a tool message of the  *)
(* history, naming the tool of the tool_use block that this tool message   *)
(* answers; without such a payload it quotes the most recent user text of  *)
(* the last messages; otherwise it is the generic prompt.                  *)
C35_Fallback == FellBack => result = PyStr(ClaimedFallback(messages))

(* the payload of one tool reported under the name of another *)
C35_WrongTool ==
    /\ FellBack
    /\ WithText(messages) # {}
    /\ result # PyStr(ClaimedFallback(messages))
    /\ result.s[2] = " using the "
    /\ result.s[3] = "p"
    /\ \E k \in 1..Len(result.s) : result.s[k] = "Server "

----------------------------------------------------------------------------
(* The life of one MCPClient with what its transport holds: the child      *)
(* process and its stderr reader (stdio), the event parser task, the       *)
(* streaming response and the HTTP session (SSE), and the traffic on it    *)

(* StdioClient.__init__ / SSEClient.__init__ for the configured kind *)
NewTransport(kind) ==
    [config |-> "ok", kind |-> kind, state |-> "made", process |-> FALSE, child |-> "none",
     reader |-> FALSE, task |-> FALSE, response |-> FALSE, session |-> FALSE,
     endpoint |-> FALSE, traffic |-> << >>]

(* how the start of a server can go: it comes up; the spawn fails or the   *)
(* GET is refused; the GET is accepted and no endpoint event arrives       *)
(* how connect goes: "ok"; "refused" (no process, or GET not answered with  *)
(* 200); "silent" (no endpoint event within the 10 s); "late" (the         *)
(* endpoint event is handled by the parser task while wait_for is          *)
(* cancelling the timed-out wait: connect returns False with the URL set)  *)
ConnectWays == { "ok", "refused", "silent", "late" }

(* when a child leaves during disconnect: on EOF of stdin within 3 s;      *)
(* after that wait and before terminate() is called; within 2 s of the     *)
(* termination signal; after that wait and before kill() is called; on the *)
(* kill signal                                                             *)
ExitWays == { "eof", "late1", "term", "late2", "kill" }

(* what a running transport does with a message: "refused" is a write or   *)
(* POST that fails, "raise" a timeout after the message went out, "other"  *)
(* a response without result                                               *)
SendWays == { "result", "other", "raise", "refused" }

(* the steps of StdioClient.disconnect for a child leaving in the way      *)
(* `exit`; terminate() and kill() raise ProcessLookupError for a child     *)
(* that is gone, which the handler logs                                    *)
Escalation_kill(exit) ==
    << "stop stderr reader", "close stdin", "wait 3", "SIGKILL", "wait" >>
Escalation(exit) ==
    << "stop stderr reader", "close stdin", "wait 3" >>
    \o (IF exit \in { "term", "late2", "kill" } THEN << "SIGTERM", "wait 2" >> ELSE << >>)
    \o (IF exit = "kill" THEN << "SIGKILL", "wait" >> ELSE << >>)

(* `if not self.process: return` *)
NothingToStop_never(t) == FALSE
NothingToStop(t) == ~t.process

(* StdioClient.disconnect / SSEClient.disconnect: the transport left and   *)
(* the steps taken                                                         *)
disconnect(t, exit) ==
    IF t.kind = "stdio"
    THEN IF NothingToStop(t) THEN [t |-> t, trace |-> << >>]
         ELSE [t |-> [t EXCEPT !.process = FALSE, !.child = "exited", !.reader = FALSE],
               trace |-> IF t.child = "exited"
                         THEN << "stop stderr reader", "close stdin", "wait 3" >>
                         ELSE Escalation(exit)]
    ELSE [t |-> [t EXCEPT !.task = FALSE, !.response = FALSE, !.session = FALSE],
          trace |-> (IF t.task THEN << "cancel parser" >> ELSE << >>)
                    \o (IF t.response THEN << "close response" >> ELSE << >>)
                    \o (IF t.session THEN << "close session" >> ELSE << >>)]

(* StdioClient.connect / SSEClient.connect on a new transport *)
connect(t, how) ==
    IF t.kind = "stdio"
    THEN IF how = "ok"
         THEN [t |-> [t EXCEPT !.process = TRUE, !.child = "running", !.reader = TRUE], ok |-> TRUE]
         ELSE [t |-> t, ok |-> FALSE]
    ELSE IF how = "ok"
    THEN [t |-> [t EXCEPT !.session = TRUE, !.response = TRUE, !.task = TRUE, !.endpoint = TRUE],
          ok |-> TRUE]
    ELSE IF how = "silent"
    THEN [t |-> [t EXCEPT !.session = TRUE, !.response = TRUE, !.task = TRUE], ok |-> FALSE]
    ELSE IF how = "late"
    THEN [t |-> [t EXCEPT !.session = TRUE, !.response = TRUE, !.task = TRUE, !.endpoint = TRUE],
          ok |-> FALSE]
    ELSE [t |-> disconnect([t EXCEPT !.session = TRUE], "eof").t, ok |-> FALSE]

(* send_message(message) of either transport: RuntimeError when there is   *)
(* no process, no session or no endpoint                                   *)
send_message(t, method, way) ==
    IF t.state = "unset" THEN [t |-> t, out |-> "raise"]
    ELSE IF (t.kind = "stdio" /\ ~t.process) \/ (t.kind = "sse" /\ ~(t.session /\ t.endpoint))
    THEN [t |-> t, out |-> "raise"]
    ELSE IF way = "refused" THEN [t |-> t, out |-> "raise"]
    ELSE [t |-> [t EXCEPT !.traffic = Append(@, method)
                              \o (IF way \in { "result", "other" } /\ method # "notifications/initialized"
                                  THEN << way >> ELSE << >>)],
          out |-> IF method = "notifications/initialized" THEN "empty" ELSE way]

Client == [next_id |-> next_id, initialized |-> initialized, sent |-> sent, transport |-> transport]

(* MCPClient.shutdown *)
shutdown(c, exit) ==
    LET d == IF c.transport.state = "unset" THEN [t |-> c.transport, trace |-> << >>]
             ELSE disconnect(c.transport, exit)
    IN [c |-> [c EXCEPT !.transport = d.t, !.initialized = FALSE], trace |-> d.trace]

(* MCPClient.initialize *)
initialize(c, how, way, notify, exit) ==
    IF c.transport.config = "bad" THEN [c |-> c, ok |-> FALSE]
    ELSE LET made == connect(NewTransport(c.transport.kind), how)
         IN IF ~made.ok THEN [c |-> [c EXCEPT !.transport = made.t], ok |-> FALSE]
            ELSE LET asked == send_message(made.t, "initialize", way)
                     c1 == [c EXCEPT !.next_id = Bump(@),
                                     !.sent = Append(@, Request(c.next_id, "initialize")),
                                     !.transport = asked.t]
                 IN IF asked.out = "result"
                    THEN LET told == send_message(asked.t, "notifications/initialized", notify)
                         IN [c |-> [c1 EXCEPT !.transport = told.t,
                                              !.sent = Append(@, Notification("notifications/initialized")),
                                              !.initialized = TRUE],
                             ok |-> TRUE]
                    ELSE [c |-> shutdown(c1, exit).c, ok |-> FALSE]

SetLife(c) ==
    /\ next_id' = c.next_id
    /\ initialized' = c.initialized
    /\ sent' = c.sent
    /\ transport' = c.transport

(* await client.initialize() *)
StartClient(how, way, notify, exit) ==
    /\ next_id <= MaxId
    /\ LET r == initialize(Client, how, way, notify, exit)
       IN /\ SetLife(r.c)
          /\ applied' = [op |-> "initialize", how |-> how]
          /\ returned' = Returned(PyBool(r.ok))
    /\ UNCHANGED << host, chat, manager, incoming, traversed >>

(* await client.list_tools() / client.call_tool(...) *)
AskClient(method, how, way, notify, exit, reply) ==
    /\ next_id < MaxId
    /\ LET c == IF initialized THEN Client ELSE initialize(Client, how, way, notify, exit).c
           r == send_message(c.transport, method, reply)
       IN /\ SetLife([c EXCEPT !.next_id = Bump(@),
                               !.sent = IF c.transport.state = "unset" THEN @
                                        ELSE Append(@, Request(c.next_id, method)),
                               !.transport = r.t])
          /\ applied' = [op |-> method, out |-> r.out]
          /\ returned' = Returned(IF method = "tools/list"
                                  THEN PyList(IF r.out = "result" THEN << Descriptor(ToolP) >> ELSE << >>)
                                  ELSE IF r.out = "result" THEN ToolResult
                                  ELSE ErrorRecord(<< r.out >>))
    /\ UNCHANGED << host, chat, manager, incoming, traversed >>

(* await client.shutdown() *)
StopClient(exit) ==
    /\ LET r == shutdown(Client, exit)
       IN /\ SetLife(r.c)
          /\ applied' = [op |-> "shutdown", exit |-> exit, trace |-> r.trace,
                         before |-> IF applied.op = "shutdown" THEN "shutdown"
                                    ELSE IF transport.state = "unset" THEN "nothing" ELSE "other",
                         child |-> IF transport.state = "unset" THEN "none" ELSE transport.child]
          /\ returned' = Returned(PyNone)
    /\ UNCHANGED << host, chat, manager, incoming, traversed >>

(* the server process ends on its own; its stderr reaches EOF *)
ChildExits ==
    /\ transport.state # "unset"
    /\ transport.child = "running"
    /\ transport' = [transport EXCEPT !.child = "exited", !.reader = FALSE]
    /\ UNCHANGED << host, chat, manager, applied, returned, next_id, initialized, sent, incoming, traversed >>

InitLife ==
    /\ ChatAtRest
    /\ host = NoHost
    /\ ManagerAtRest
    /\ applied = NoOp
    /\ returned = NoCall
    /\ next_id = 1
    /\ initialized = FALSE
    /\ sent = << >>
    /\ transport \in {[NoTransport EXCEPT !.config = c, !.kind = k] :
                          c \in { "ok", "bad" }, k \in { "stdio", "sse" }}
    /\ incoming = << >>
    /\ traversed = PyNone

NextLife ==
    \/ \E how \in ConnectWays, way \in SendWays, notify \in { "result", "refused" }, exit \in ExitWays :
           StartClient(how, way, notify, exit)
    \/ \E method \in { "tools/list", "tools/call" }, how \in ConnectWays, way \in SendWays,
          notify \in { "result", "refused" }, reply \in SendWays :
           AskClient(method, how, way, notify, "eof", reply)
    \/ \E exit \in ExitWays : StopClient(exit)
    \/ ChildExits

SpecLife == InitLife /\ [][NextLife]_vars

Position(seq, x) ==
    IF \E i \in 1..Len(seq) : seq[i] = x
    THEN CHOOSE i \in 1..Len(seq) : seq[i] = x /\ \A j \in 1..(i - 1) : seq[j] # x
    ELSE 0

(* C21: on every transport a client starts the first message is            *)
(* initialize; notifications/initialized goes out only after a response    *)
(* with result; the client is marked initialized only after that           *)
(* notification has gone out; no tools/list or tools/call goes out before. *)
C21_Handshake ==
    transport.state # "unset" =>
        LET w == transport.traffic
        IN /\ w # << >> => w[1] = "initialize"
           /\ \A i \in 1..Len(w) :
                 w[i] = "notifications/initialized" => (i = 3 /\ w[2] = "result")
           /\ initialized => Position(w, "notifications/initialized") > 0
           /\ \A i \in 1..Len(w) :
                 w[i] \in { "tools/list", "tools/call" } =>
                     (Position(w, "notifications/initialized") \in 1..(i - 1))

(* C22: when initialize returns failure with a transport constructed, no   *)
(* process handle, no parser task and no session are left, and             *)
(* initialized is false.                                                   *)
C22_FailureCleansUp ==
    (applied.op = "initialize" /\ returned = Returned(PyBool(FALSE)) /\ transport.state # "unset") =>
        /\ ~transport.process
        /\ ~transport.task
        /\ ~transport.session
        /\ ~initialized

Holds(t) == t.state # "unset" /\ (t.process \/ t.task \/ t.response \/ t.session)

Signals(trace) == {trace[i] : i \in 1..Len(trace)} \cap { "SIGTERM", "SIGKILL" }

NeverInitialized == \A i \in 1..Len(sent) : sent[i].method # "notifications/initialized"

(* C26: MCPClient.shutdown returns with initialized false and no process,  *)
(* task or session held; called again it takes no step (no signal, no      *)
(* close) and leaves the client as the first call left it; on a client     *)
(* that never initialized it sends no signal.                              *)
C26_ShutdownIdempotent ==
    [][ applied'.op = "shutdown" =>
          /\ returned' = Returned(PyNone)
          /\ ~initialized'
          /\ ~Holds(transport')
          /\ (applied.op = "shutdown" =>
                 /\ applied'.trace = << >>
                 /\ UNCHANGED link)
          /\ (NeverInitialized => Signals(applied'.trace) = {})
      ]_vars

C26_Witness ==
    /\ applied.op = "shutdown"
    /\ applied.before = "shutdown"
    /\ applied.trace = << >>
    /\ transport.state # "unset"
    /\ transport.kind = "stdio"
    /\ transport.child = "exited"
    /\ ~NeverInitialized

ToolMethods == { "tools/list", "tools/call" }

(* C36: list_tools and call_tool on a client that is not initialized run   *)
(* the handshake first, on a fresh transport; when the handshake fails no  *)
(* tools/list or tools/call is written to the transport and the operation  *)
(* returns [] or an {error: ...} record.                                   *)
C36_LazyInitialize ==
    [][ (next_id' # next_id /\ applied'.op \in ToolMethods /\ ~initialized) =>
          IF initialized'
          THEN /\ transport'.traffic[1] = "initialize"
               /\ \A i \in 1..Len(transport'.traffic) :
                     transport'.traffic[i] \in ToolMethods => i > 2
          ELSE /\ transport'.state # "unset" =>
                     \A i \in 1..Len(transport'.traffic) : transport'.traffic[i] \notin ToolMethods
               /\ returned' = Returned(IF applied'.op = "tools/list" THEN PyList(<< >>)
                                       ELSE ErrorRecord(<< "raise" >>)) ]_vars

(* a tools/call whose handshake was answered without a result: nothing     *)
(* but the initialize exchange is on the transport                         *)
C36_Witness ==
    /\ applied.op = "tools/call"
    /\ ~initialized
    /\ transport.state # "unset"
    /\ transport.traffic = << "initialize", "other" >>
    /\ returned = Returned(ErrorRecord(<< "raise" >>))

(* the state the claim excludes: the handshake failed (connect returned    *)
(* False) and the tools/list went out on that transport, answered or not   *)
C36_WrittenWithoutHandshake ==
    /\ applied.op = "tools/list"
    /\ ~initialized
    /\ transport.state # "unset"
    /\ transport.kind = "sse"
    /\ transport.traffic = << "tools/list", "result" >>
    /\ returned = Returned(PyList(<< Descriptor(ToolP) >>))

----------------------------------------------------------------------------
(* run_chat_session: the configuration is loaded, the manager initializes  *)
(* one client per server in turn, the chat loop talks to the clients, and  *)
(* shutdown_all stops them in parallel tasks under one deadline            *)

NoServersText == "No MCP servers configured. Please add servers to your config file."
NoClientsText == "Failed to initialize any MCP clients. Check your configuration and logs."

ServerConfig(name, kind) == [name |-> name, kind |-> kind]

(* the mcpServers a configuration can hold *)
ServerConfigs ==
    { << >>,
      << ServerConfig(SrvA, "sse") >>,
      << ServerConfig(SrvA, "stdio"), ServerConfig(SrvB, "sse") >> }

(* MCPClient(name, config) *)
NewClient(cfg) ==
    [next_id |-> 1, initialized |-> FALSE, sent |-> << >>,
     transport |-> [NoTransport EXCEPT !.kind = cfg.kind]]

(* `if success:` of initialize_clients *)
Retain_all(ok) == TRUE
Retain(ok) == ok

(* `if not mcp_manager.clients:` of run_chat_session, negated *)
Usable_always(cl) == TRUE
Usable(cl) == cl # << >>

(* the main coroutine is not inside an await on a client *)
MainFree_always(h) == TRUE
MainFree(h) == h.awaiting = << >>

(* clients_to_shutdown, one task for each *)
ShutdownTasks_first(cl) ==
    IF cl = << >> THEN << >> ELSE << [client |-> cl[1], status |-> "created"] >>
ShutdownTasks(cl) == [k \in 1..Len(cl) |-> [client |-> cl[k], status |-> "created"]]

Finished(task) == task.status \in { "done", "failed" }

(* asyncio.wait(shutdown_tasks, timeout=10.0): the deadline can pass once   *)
(* every task has had its first turn and some task is not finished         *)
Deadline_never(h) == FALSE
Deadline(h) ==
    /\ \A k \in 1..Len(h.tasks) : h.tasks[k].status # "created"
    /\ \E k \in 1..Len(h.tasks) : ~Finished(h.tasks[k])

(* the finally clause: shutdown_all up to its wait; with no task it clears *)
(* the client set and returns                                              *)
EnterShutdown(h, cl) ==
    [h EXCEPT !.tasks = ShutdownTasks(cl),
              !.atStop = cl,
              !.pc = IF ShutdownTasks(cl) = << >> THEN "done" ELSE "stop",
              !.stopped = (ShutdownTasks(cl) = << >>)]

HostRest == << chat, cached_tools, serverTools, wire >>

(* load_config and `if not server_configs`; MCPClientManager(server_configs) *)
Load ==
    /\ host.pc = "load"
    /\ host' = IF host.configs = << >>
               THEN [host EXCEPT !.pc = "done", !.printed = Append(@, NoServersText)]
               ELSE [host EXCEPT !.pc = "init", !.made = TRUE]
    /\ UNCHANGED << HostRest, clients >>

(* initialize_clients: `await client.initialize()` for the next server *)
InitBegin ==
    /\ host.pc = "init"
    /\ host.i <= Len(host.configs)
    /\ MainFree(host)
    /\ LET name == host.configs[host.i].name
       IN host' = [host EXCEPT !.awaiting = name, !.busy[name] = @ + 1]
    /\ UNCHANGED << HostRest, clients >>

(* ... and its return *)
InitEnd(how, way, notify, exit) ==
    /\ host.pc = "init"
    /\ host.i <= Len(host.configs)
    /\ host.awaiting = host.configs[host.i].name
    /\ LET cfg == host.configs[host.i]
           r == initialize(NewClient(cfg), how, way, notify, exit)
       IN /\ host' = [host EXCEPT !.awaiting = << >>,
                                  !.busy[cfg.name] = @ - 1,
                                  !.i = @ + 1,
                                  !.results = Append(@, [name |-> cfg.name, ok |-> r.ok,
                                                         initialized |-> r.c.initialized])]
          /\ clients' = IF Retain(r.ok) THEN Append(clients, cfg.name) ELSE clients
    /\ UNCHANGED HostRest

(* initialize_clients has returned: the message and the finally clause, or *)
(* the provider, the ChatSession and the chat loop                         *)
CheckClients ==
    /\ host.pc = "init"
    /\ host.i > Len(host.configs)
    /\ IF Usable(clients)
       THEN host' = [host EXCEPT !.pc = "run", !.session = TRUE]
       ELSE host' = EnterShutdown([host EXCEPT !.printed = Append(@, NoClientsText)], clients)
    /\ clients' = IF Usable(clients) \/ ShutdownTasks(clients) # << >> THEN clients ELSE << >>
    /\ UNCHANGED HostRest

(* process_prompt: `await self.llm_provider.create_message(...)` *)
Invoke ==
    /\ host.pc = "run"
    /\ MainFree(host)
    /\ ~host.invoked
    /\ host' = [host EXCEPT !.invoked = TRUE]
    /\ UNCHANGED << HostRest, clients >>

(* get_all_tools and process_prompt: `await client.list_tools()` and       *)
(* `await self.mcp_manager.call_tool(...)`, one after the other            *)
CallBegin(k) ==
    /\ host.pc = "run"
    /\ MainFree(host)
    /\ host.sends < MaxSends
    /\ host' = [host EXCEPT !.awaiting = clients[k], !.busy[clients[k]] = @ + 1, !.sends = @ + 1]
    /\ UNCHANGED << HostRest, clients >>

CallEnd ==
    /\ host.pc = "run"
    /\ host.awaiting # << >>
    /\ host' = [host EXCEPT !.awaiting = << >>, !.busy[host.awaiting] = @ - 1]
    /\ UNCHANGED << HostRest, clients >>

(* `exit`: the loop is left and the finally clause runs *)
Exit ==
    /\ host.pc = "run"
    /\ MainFree(host)
    /\ host' = EnterShutdown(host, clients)
    /\ clients' = IF ShutdownTasks(clients) # << >> THEN clients ELSE << >>
    /\ UNCHANGED HostRest

(* a shutdown task gets its first turn *)
TaskStart(k) ==
    /\ host.pc = "stop"
    /\ host.tasks[k].status = "created"
    /\ host' = [host EXCEPT !.tasks[k].status = "running"]
    /\ UNCHANGED << HostRest, clients >>

(* client.shutdown() returns or raises in its task *)
TaskEnd(k, status) ==
    /\ host.pc = "stop"
    /\ host.tasks[k].status = "running"
    /\ host' = [host EXCEPT !.tasks[k].status = status]
    /\ UNCHANGED << HostRest, clients >>

(* asyncio.wait returns with every task done: self.clients.clear() *)
AllDone ==
    /\ host.pc = "stop"
    /\ \A k \in 1..Len(host.tasks) : Finished(host.tasks[k])
    /\ host' = [host EXCEPT !.pc = "done", !.stopped = TRUE]
    /\ clients' = << >>
    /\ UNCHANGED HostRest

(* asyncio.wait returns at the deadline: the pending tasks are cancelled,  *)
(* not awaited; self.clients.clear()                                       *)
TimerExpires ==
    /\ host.pc = "stop"
    /\ Deadline(host)
    /\ host' = [host EXCEPT !.pc = "done", !.stopped = TRUE,
                            !.tasks = [k \in 1..Len(host.tasks) |->
                                          IF Finished(host.tasks[k]) THEN host.tasks[k]
                                          ELSE [host.tasks[k] EXCEPT !.status = "cancelled"]]]
    /\ clients' = << >>
    /\ UNCHANGED HostRest

InitHost ==
    /\ ChatAtRest
    /\ clients = << >>
    /\ cached_tools = PyNone
    /\ serverTools = ArgsConfig
    /\ applied = NoOp
    /\ returned = NoCall
    /\ next_id = 1
    /\ initialized = FALSE
    /\ sent = << >>
    /\ transport = NoTransport
    /\ incoming = << >>
    /\ traversed = PyNone
    /\ host \in {[pc |-> "load", configs |-> cfgs, i |-> 1, made |-> FALSE, results |-> << >>,
                  session |-> FALSE, invoked |-> FALSE, printed |-> << >>, awaiting |-> << >>,
                  busy |-> [n \in { SrvA, SrvB } |-> 0], sends |-> 0, tasks |-> << >>,
                  atStop |-> << >>, stopped |-> FALSE] : cfgs \in ServerConfigs}

NextHost ==
    \/ Load
    \/ InitBegin
    \/ \E how \in ConnectWays, way \in SendWays, notify \in { "result", "refused" }, exit \in ExitWays :
           InitEnd(how, way, notify, exit)
    \/ CheckClients
    \/ Invoke
    \/ \E k \in 1..Len(clients) : CallBegin(k)
    \/ CallEnd
    \/ Exit
    \/ \E k \in 1..Len(host.tasks) : TaskStart(k)
    \/ \E k \in 1..Len(host.tasks), status \in { "done", "failed" } : TaskEnd(k, status)
    \/ AllDone
    \/ TimerExpires

SpecHost == InitHost /\ [][NextHost]_vars

(* the event loop gives every created task its turn and fires the timer of *)
(* asyncio.wait                                                            *)
TaskTurn == \E k \in 1..Len(host.tasks) : TaskStart(k)

FairHost == InitHost /\ [][NextHost]_vars /\ WF_vars(TaskTurn) /\ WF_vars(AllDone) /\ WF_vars(TimerExpires)

InitializeDone == host.pc = "run" \/ (host.pc = "init" /\ host.i > Len(host.configs))

Succeeded_names == [k \in 1..Len(SelectSeq(host.results, LAMBDA r : r.ok)) |->
                       SelectSeq(host.results, LAMBDA r : r.ok)[k].name]

(* C23: after initialize_clients every configured server has been tried,   *)
(* the client set holds exactly those whose initialize returned success,   *)
(* in order and each initialized; an SSE server that never emits endpoint  *)
(* makes initialize return false.                                          *)
C23_Retained ==
    /\ InitializeDone =>
          /\ Len(host.results) = Len(host.configs)
          /\ \A k \in 1..Len(host.results) : host.results[k].name = host.configs[k].name
          /\ clients = Succeeded_names
          /\ \A k \in 1..Len(host.results) : host.results[k].ok => host.results[k].initialized
    /\ \A way \in SendWays, notify \in { "result", "refused" }, exit \in ExitWays :
          ~initialize(NewClient(ServerConfig(SrvA, "sse")), "silent", way, notify, exit).ok

C23_Witness ==
    /\ host.pc = "run"
    /\ Len(host.configs) = 2
    /\ ~host.results[1].ok
    /\ clients = << SrvB >>

(* C24: when shutdown_all has returned the client set is empty and every   *)
(* client that was in it has had its shutdown started, whether or not some *)
(* shutdown raised or did not complete; while it waits, a running shutdown *)
(* can complete whatever the other tasks did.                              *)
C24_AllStopped ==
    /\ (host.pc = "done" /\ host.made) =>
          /\ host.stopped
          /\ clients = << >>
          /\ \A k \in 1..Len(host.atStop) :
                \E j \in 1..Len(host.tasks) :
                    /\ host.tasks[j].client = host.atStop[k]
                    /\ host.tasks[j].status # "created"
    /\ host.pc = "stop" =>
          \A k \in 1..Len(host.tasks) :
              host.tasks[k].status = "running" => ENABLED TaskEnd(k, "done")

C24_Witness ==
    /\ host.pc = "done"
    /\ Len(host.tasks) = 2
    /\ host.tasks[1].status = "failed"
    /\ host.tasks[2].status = "done"
    /\ clients = << >>

(* C25: shutdown_all always returns; at the deadline every unfinished      *)
(* shutdown task is cancelled and is not waited for.                       *)
C25_Returns ==
    /\ (host.pc = "stop") ~> (host.pc = "done" /\ host.stopped)
    /\ [](host.pc = "done" =>
            \A k \in 1..Len(host.tasks) :
                host.tasks[k].status \in { "done", "failed", "cancelled" })

C25_Witness ==
    /\ host.pc = "done"
    /\ host.stopped
    /\ \E k \in 1..Len(host.tasks) : host.tasks[k].status = "cancelled"

(* C28: at most one send is in progress on a client's transport; the main  *)
(* coroutine awaits nothing on a client while shutdown tasks exist, and    *)
(* the shutdown tasks are one per client.                                  *)
C28_OneSend ==
    /\ host.pc # "none" =>
          /\ \A n \in DOMAIN host.busy : host.busy[n] <= 1
          /\ \A n \in DOMAIN host.busy : host.busy[n] = 1 => host.awaiting = n
          /\ host.awaiting # << >> => host.tasks = << >>
          /\ \A j, k \in 1..Len(host.tasks) :
                j # k => host.tasks[j].client # host.tasks[k].client

C28_Witness ==
    /\ host.pc = "stop"
    /\ host.sends = MaxSends
    /\ Len(host.tasks) = 2
    /\ host.tasks[1].status = "running"
    /\ host.tasks[2].status = "running"

(* C30: with no server configured, or none initialized, run_chat_session   *)
(* prints its message and ends with no ChatSession created and the model   *)
(* never invoked; a manager that was created has been shut down by         *)
(* shutdown_all when the function returns.                                 *)
C30_AbortsCleanly ==
    /\ (host.pc # "none" /\ host.configs = << >>) =>
          /\ ~host.session /\ ~host.invoked /\ ~host.made
          /\ host.pc = "done" => host.printed = << NoServersText >>
    /\ (host.pc # "none" /\ host.configs # << >> /\ host.i > Len(host.configs)
          /\ \A k \in 1..Len(host.results) : ~host.results[k].ok) =>
          /\ ~host.session /\ ~host.invoked
          /\ host.pc = "done" => host.printed = << NoClientsText >>
    /\ (host.pc = "done" /\ host.made) => host.stopped

C30_Witness ==
    /\ host.pc = "done"
    /\ host.made
    /\ host.stopped
    /\ host.printed = << NoClientsText >>
    /\ Len(host.results) = 2

----------------------------------------------------------------------------
(* The client manager over its whole life: get_all_tools with and without  *)
(* the cache, and shutdown_all                                             *)

(* MCPClientManager.shutdown_all once the shutdown tasks are over: the     *)
(* client dictionary is cleared, nothing else of the manager is touched    *)
ShutdownAll ==
    /\ ~Running
    /\ clients' = << >>
    /\ applied' = [op |-> "shutdown_all"]
    /\ returned' = Returned(PyNone)
    /\ UNCHANGED << host, chat, cached_tools, serverTools, link, traversed >>

NextCatalog ==
    \/ \E skip_refresh \in BOOLEAN : GetAllTools(skip_refresh)
    \/ ListStep
    \/ TraversalEnd
    \/ \E name \in {SrvA, SrvB, SrvU, SrvAB}, answer \in ListAnswers : ServerAnswers(name, answer)
    \/ ShutdownAll

SpecCatalog == InitManager /\ [][NextCatalog]_vars

StartsWith(s, prefix) == Len(s) >= Len(prefix) /\ SubSeq(s, 1, Len(prefix)) = prefix

(* C39: every descriptor that get_all_tools returns, with or without       *)
(* skip_refresh, names a server that is in the client set at that time,    *)
(* also after shutdown_all.                                                *)
C39_CurrentServers ==
    (applied.op = "get_all_tools" /\ returned.kind = "return") =>
        \A k \in 1..Len(returned.value.l) :
            \E i \in 1..Len(clients) :
                StartsWith(returned.value.l[k].name, clients[i] \o << "_", "_" >>)

(* get_all_tools(skip_refresh=True) after shutdown_all: the catalog of the *)
(* clients that are gone                                                   *)
C39_AfterShutdown ==
    /\ applied.op = "get_all_tools"
    /\ applied.skip_refresh
    /\ returned.kind = "return"
    /\ clients = << >>
    /\ returned.value.l # << >>

----------------------------------------------------------------------------
(* OllamaProvider.create_message: the formatting of the history and of the *)
(* offered tools, then the request loop with its retries.  Error texts are *)
(* sequences of chunks; a chunk stands for a word of the text.             *)

MAX_RETRIES == 3
INITIAL_BACKOFF == 1
MAX_BACKOFF == 30

(* str(e) of what an attempt can raise: HTTP status >= 400 with the body,  *)
(* aiohttp connection errors, the 60 s timeout of the POST (an             *)
(* asyncio.TimeoutError, whose text is empty), a body that is not JSON     *)
ErrorTexts40 ==
    { << "Ollama API error (503): ", "Overloaded" >>,
      << "Cannot connect to host: ", "Connection", " refused" >>,
      << "Ollama API error (504): ", "gateway ", "timeout" >>,
      << "Ollama API error (404): ", "model not found" >>,
      << >> }

(* error_msg.lower(), word by word *)
Lower(chunk) ==
    IF chunk = "Overloaded" THEN "overloaded"
    ELSE IF chunk = "Connection" THEN "connection"
    ELSE chunk

(* "overloaded" in error_msg.lower() or "timeout" in ... or "connection" in ... *)
Retryable(error_msg) ==
    \E i \in 1..Len(error_msg) : Lower(error_msg[i]) \in { "overloaded", "timeout", "connection" }

Min(a, b) == IF a < b THEN a ELSE b

(* the descriptors offered and the tool results in the history, by what    *)
(* the formatting reads of them: tool["inputSchema"] of every offered      *)
(* tool, and the text of every text item as a string                       *)
ProviderInputs == [schema : BOOLEAN, text : BOOLEAN]

InitProvider ==
    /\ ChatAtRest
    /\ host = NoHost
    /\ ManagerAtRest
    /\ WireInit

(* create_message up to the first POST: lines 76-175 are outside any try   *)
CreateMessage(input) ==
    /\ ~Running
    /\ applied' = [op |-> "create_message", input |-> input, retries |-> 0,
                   backoff |-> INITIAL_BACKOFF, attempts |-> 0, slept |-> << >>, errors |-> << >>]
    /\ returned' = IF ~input.text THEN Raised(<< "TypeError" >>)
                   ELSE IF ~input.schema THEN Raised(<< "KeyError" >>)
                   ELSE Pending
    /\ UNCHANGED << host, chat, manager, link, traversed >>

(* one POST answered with a reply *)
AttemptSucceeds(text) ==
    /\ Running
    /\ applied.op = "create_message"
    /\ applied' = [applied EXCEPT !.attempts = @ + 1]
    /\ returned' = Returned(Message("assistant", IF text = << >> THEN << >> ELSE << TextBlock(text) >>))
    /\ UNCHANGED << host, chat, manager, link, traversed >>

(* one POST that raises an exception whose text is error_msg: the retry    *)
(* with its sleep, or the error message                                    *)
AttemptFails(error_msg) ==
    /\ Running
    /\ applied.op = "create_message"
    /\ IF applied.retries < MAX_RETRIES /\ Retryable(error_msg)
       THEN /\ applied' = [applied EXCEPT !.attempts = @ + 1,
                                          !.retries = @ + 1,
                                          !.slept = Append(@, applied.backoff),
                                          !.backoff = Min(applied.backoff * 2, MAX_BACKOFF),
                                          !.errors = Append(@, error_msg)]
            /\ UNCHANGED returned
       ELSE /\ applied' = [applied EXCEPT !.attempts = @ + 1, !.errors = Append(@, error_msg)]
            /\ returned' = Returned(Message("assistant",
                               << TextBlock(<< "Error communicating with Ollama: " >> \o error_msg) >>))
    /\ UNCHANGED << host, chat, manager, link, traversed >>

NextProvider ==
    \/ \E input \in ProviderInputs : CreateMessage(input)
    \/ \E text \in ModelTexts : AttemptSucceeds(text)
    \/ \E error_msg \in ErrorTexts40 : AttemptFails(error_msg)

SpecProvider == InitProvider /\ [][NextProvider]_vars

(* the request loop as claimed *)
LoopAsClaimed ==
    /\ applied.attempts <= 1 + MAX_RETRIES
    /\ \A i \in 1..Len(applied.slept) : applied.slept[i] = Min(2 ^ (i - 1), MAX_BACKOFF)
    /\ Len(applied.slept) = applied.retries
    /\ \A i \in 1..applied.retries : Retryable(applied.errors[i])
    /\ (returned.kind = "return" /\ Len(applied.errors) > applied.retries) =>
          /\ returned.value.role = "assistant"
          /\ Len(returned.value.content) = 1
          /\ returned.value.content[1].type = "text"
          /\ returned.value.content[1].text # << >>
          /\ returned.value.content[1].text =
                << "Error communicating with Ollama: " >> \o applied.errors[Len(applied.errors)]

(* C40: create_message never raises and always terminates: at most 1 + 3  *)
(* HTTP attempts, a retry only after an error that mentions overload,      *)
(* timeout or connection, sleeping 1 s, 2 s, 4 s (doubling, capped at      *)
(* 30 s), and on giving up an assistant message with exactly one non-empty *)
(* text block describing the error.                                        *)
C40_NeverRaises ==
    applied.op = "create_message" => (returned.kind # "raise" /\ LoopAsClaimed)

(* what holds: the request loop, once it is entered *)
C40_RequestLoop ==
    applied.op = "create_message" => LoopAsClaimed

(* three retries and the fourth failure: the error message *)
C40_GaveUp ==
    /\ applied.op = "create_message"
    /\ applied.attempts = 4
    /\ applied.slept = << 1, 2, 4 >>
    /\ returned.kind = "return"
    /\ Len(applied.errors) = 4

(* an offered tool without inputSchema: KeyError out of create_message *)
C40_Raised ==
    /\ applied.op = "create_message"
    /\ returned = Raised(<< "KeyError" >>)

----------------------------------------------------------------------------
Paired(hist) ==
    \A i \in 1..Len(hist) : \A k \in 1..Len(hist[i].content) :
        hist[i].content[k].type = "tool_result" =>
            \E j \in 1..(i - 1) :
                /\ hist[j].role = "assistant"
                /\ \E u \in 1..Len(hist[j].content) :
                      /\ hist[j].content[u].type = "tool_use"
                      /\ hist[j].content[u].id = hist[i].content[k].tool_use_id

(* C37: at every model invocation each tool_result block of the history    *)
(* has its tool_use block (same id) in an earlier assistant message of     *)
(* that history: the window never cuts a tool result off from its request. *)
C37_Paired == pc \in { "llm1", "llm2" } => Paired(messages)

(* the follow-up invocation sees the tool message without the assistant    *)
(* message that asked for it                                               *)
C37_Orphan ==
    /\ pc = "llm2"
    /\ messages # << >>
    /\ messages[Len(messages)].role = "tool"
    /\ ~Paired(messages)

----------------------------------------------------------------------------
(* C29: every message of the history has at least one content block; a     *)
(* reply that the model returns with no blocks is not stored.              *)
C29_NonEmpty ==
    \A i \in 1..Len(messages) : Len(messages[i].content) >= 1

C29_Witness ==
    /\ pc = "idle"
    /\ llmCount = 1
    /\ messages # << >>
    /\ messages[Len(messages)].role = "user"

====
